---- MODULE Spec2Model ----
(***************************************************************************)
(* sapcli: the gCTS repository proxy of sap/rest/gcts.py, its error        *)
(* classification and its orchestration functions.                         *)
(*                                                                         *)
(* One Repository proxy talks to one gCTS server through the connection.   *)
(* Every operation of the proxy is one action: it issues its HTTP requests *)
(* in order, each answered by the server or failed by the connection.      *)
(*                                                                         *)
(* Python values: None is the empty tuple <<>> and a present value x is    *)
(* <<x>>; a dict is a function on its keys; a list is a sequence.          *)
(***************************************************************************)
EXTENDS Integers, Sequences, FiniteSets, TLC

VARIABLES
    srv,      \* the repository as the gCTS server holds it
    _data,    \* Repository._data: None or the cached snapshot
    _config,  \* Repository._config: None or the cached config list
    shared,   \* _config is the very list object held at _data['config']
    op,       \* the last operation called and its arguments
    reqs,     \* the HTTP requests the last operation issued, in order
    ret,      \* how the last operation ended: [exc, val]
    hist      \* what is kept of the operations before the last one

vars == <<srv, _data, _config, shared, op, reqs, ret, hist>>

-----------------------------------------------------------------------------
(* Bounds and value domains *)

MaxReads == 2
MaxLen == 3
MaxUrl == 4

Name == "repo"
Urls == {"u1", "u2"}
Branches == {"b1", "b2"}
Statuses == {"CREATED", "READY"}
Keys == {"VCS_TARGET_DIR", "CLIENT_VCS_AUTH_TOKEN"}
Dirs == {"src/", "lib/"}
Tokens == {"tok"}
DefaultVsid == "6IT"

None == <<>>
Some(x) == <<x>>

-----------------------------------------------------------------------------
(* dicts and config lists *)

DictGet(d, k) == IF k \in DOMAIN d THEN Some(d[k]) ELSE None

DictUpdate(d, e) ==
    [k \in DOMAIN d \cup DOMAIN e |-> IF k \in DOMAIN e THEN e[k] ELSE d[k]]

EmptyDict == [k \in {} |-> k]

ListKeys(l) == {l[i].key : i \in 1..Len(l)}

\* entries of the list are dicts that always carry 'key' and may lack 'value'
EntryValue(cfg) == IF "value" \in DOMAIN cfg THEN cfg.value ELSE ""

\* index of the first entry whose key is k, 0 when there is none
FirstIndex(l, k) ==
    IF \E i \in 1..Len(l) : l[i].key = k
    THEN CHOOSE i \in 1..Len(l) :
            /\ l[i].key = k
            /\ \A j \in 1..(i - 1) : l[j].key # k
    ELSE 0

\* index of the last entry whose key is k (k occurs in l)
LastIndex(l, k) ==
    CHOOSE i \in 1..Len(l) :
        /\ l[i].key = k
        /\ \A j \in (i + 1)..Len(l) : l[j].key # k

\* a set that appends whether the key is there or not
_append_configuration_key(l, key, value) ==
    Append(l, [key |-> key, value |-> value])

_set_configuration_key(l, key, value) ==
    LET i == FirstIndex(l, key) IN
    IF i # 0
    THEN [l EXCEPT ![i] = DictUpdate(l[i], [value |-> value])]
    ELSE Append(l, [key |-> key, value |-> value])

\* the keys of the list in the order of their first occurrence
RECURSIVE KeyOrder(_)
KeyOrder(l) ==
    IF l = <<>> THEN <<>>
    ELSE LET front == SubSeq(l, 1, Len(l) - 1)
             k == l[Len(l)].key
         IN  IF k \in ListKeys(front) THEN KeyOrder(front)
             ELSE Append(KeyOrder(front), k)

\* A configuration mapping is a Python dict: its keys in insertion order and
\* the value at each key.  Two mappings are equal when their `at` are.
PyDict(order, at) == [order |-> order, at |-> at]

\* a conversion in which the first entry of a key wins
_config_list_to_dict_first(l) ==
    PyDict(KeyOrder(l), [k \in ListKeys(l) |-> EntryValue(l[FirstIndex(l, k)])])

\* dict(...) over the entries in order: a later entry of the same key wins,
\* the key keeping the place of its first occurrence
_config_list_to_dict(l) ==
    PyDict(KeyOrder(l), [k \in ListKeys(l) |-> EntryValue(l[LastIndex(l, k)])])

_config_dict_to_list(d) ==
    [i \in 1..Len(d.order) |-> [key |-> d.order[i], value |-> d.at[d.order[i]]]]

\* the empty mapping, and the mapping of the one key VCS_TARGET_DIR
NoConfig == PyDict(<<>>, EmptyDict)

TargetDir(dir) == PyDict(<<"VCS_TARGET_DIR">>, [VCS_TARGET_DIR |-> dir])

\* dict.update: the keys of e overwrite, new keys are appended in e's order
PyDictUpdate(d, e) ==
    PyDict(d.order \o SelectSeq(e.order, LAMBDA k : k \notin DOMAIN d.at),
           DictUpdate(d.at, e.at))

-----------------------------------------------------------------------------
(* The transport errors the connection raises, and their classification *)

AlreadyExistsSuffix == <<"Error action CREATE_REPOSITORY", "Repository already exists">>
NoRelation == "No relation between system and repository"

\* str.endswith over message texts, a text being its sequence of pieces
EndsWith(text, suffix) ==
    /\ Len(text) >= Len(suffix)
    /\ SubSeq(text, Len(text) - Len(suffix) + 1, Len(text)) = suffix

\* a header value is a text, the sequence of its pieces
JsonHeaders == [Content_Type |-> <<"application/json", "; charset=utf-8">>]
HtmlHeaders == [Content_Type |-> <<"text/html">>]

\* piece in text
Contains(text, piece) == \E i \in 1..Len(text) : text[i] = piece

HTTPRequestError(headers, messages) ==
    [kind |-> "HTTPRequestError", headers |-> headers, messages |-> messages]

Fails == {"exists", "notfound", "generic", "nonjson"}

\* the failures that do not depend on what the server holds
Outages == {"generic", "nonjson"}

\* what the connection raises for each way a request can fail
TransportError(f) ==
    CASE f = "exists" ->
            HTTPRequestError(JsonHeaders,
                [exception |-> "Cannot create",
                 log |-> <<[message |-> <<"20200923111743: ">> \o AlreadyExistsSuffix]>>])
      [] f = "notfound" ->
            HTTPRequestError(JsonHeaders, [exception |-> NoRelation])
      [] f = "generic" ->
            HTTPRequestError(JsonHeaders,
                [exception |-> "Request failed",
                 log |-> <<[message |-> <<"Failure">>]>>])
      [] OTHER ->
            HTTPRequestError(HtmlHeaders, EmptyDict)

GCTSRequestError(messages) ==
    [kind |-> "GCTSRequestError", messages |-> messages]

GCTSRepoAlreadyExistsError(messages) ==
    [kind |-> "GCTSRepoAlreadyExistsError", messages |-> messages]

\* a NotExists error that keeps the server's message
GCTSRepoNotExistsVerbatim(messages) ==
    [kind |-> "GCTSRepoNotExistsError", messages |-> messages]

GCTSRepoNotExistsError(messages) ==
    [kind |-> "GCTSRepoNotExistsError",
     messages |-> DictUpdate(messages, [exception |-> "Repository does not exist"])]

\* a classification that looks at the exception text before the log
classify_exception_first(http_error) ==
    IF ~Contains(IF "Content_Type" \in DOMAIN http_error.headers
                 THEN http_error.headers.Content_Type ELSE <<>>,
                 "application/json")
    THEN http_error
    ELSE LET messages == http_error.messages
             log == IF "log" \in DOMAIN messages THEN messages.log ELSE <<>>
         IN  IF "exception" \in DOMAIN messages /\ messages.exception = NoRelation
             THEN GCTSRepoNotExistsError(messages)
             ELSE IF /\ Len(log) > 0
                     /\ EndsWith(IF "message" \in DOMAIN log[1] THEN log[1].message ELSE <<>>,
                                 AlreadyExistsSuffix)
                  THEN GCTSRepoAlreadyExistsError(messages)
                  ELSE GCTSRequestError(messages)

\* a classification that does not look at the content type
classify_any_content(http_error) ==
    LET messages == http_error.messages
        log == IF "log" \in DOMAIN messages THEN messages.log ELSE <<>>
    IN  IF /\ Len(log) > 0
           /\ EndsWith(IF "message" \in DOMAIN log[1] THEN log[1].message ELSE <<>>,
                       AlreadyExistsSuffix)
        THEN GCTSRepoAlreadyExistsError(messages)
        ELSE IF "exception" \in DOMAIN messages /\ messages.exception = NoRelation
             THEN GCTSRepoNotExistsError(messages)
             ELSE GCTSRequestError(messages)

exception_from_http_error(http_error) ==
    IF ~Contains(IF "Content_Type" \in DOMAIN http_error.headers
                 THEN http_error.headers.Content_Type ELSE <<>>,
                 "application/json")
    THEN http_error
    ELSE LET messages == http_error.messages
             log == IF "log" \in DOMAIN messages THEN messages.log ELSE <<>>
         IN  IF /\ Len(log) > 0
                /\ EndsWith(IF "message" \in DOMAIN log[1] THEN log[1].message ELSE <<>>,
                            AlreadyExistsSuffix)
             THEN GCTSRepoAlreadyExistsError(messages)
             ELSE IF "exception" \in DOMAIN messages /\ messages.exception = NoRelation
                  THEN GCTSRepoNotExistsError(messages)
                  ELSE GCTSRequestError(messages)

PyError(kind) == [kind |-> kind, messages |-> EmptyDict]

-----------------------------------------------------------------------------
(* The gCTS server behind the connection *)

\* the fields of a repository resource
AllFields ==
    {"rid", "name", "role", "type", "vsid", "status", "url", "branch",
     "currentCommit", "connection", "config"}

\* No repository of the name.  lean: the server leaves an empty config list
\* out of the objects it reports (it is the same server all along); creates,
\* here status, is the status of a repository the server creates: CREATED, or
\* READY when it clones on creation; listed: the fields the entries of the
\* repository list carry; others: the other repositories the server holds, in
\* the order it lists them.
NoRepo(lean, status) ==
    [exists |-> FALSE, lean |-> lean, status |-> status, creates |-> status,
     url |-> "u1", branch |-> "b1", config |-> <<>>,
     role |-> "SOURCE", type |-> "GITHUB", vsid |-> DefaultVsid,
     listed |-> AllFields, others |-> <<>>]

\* the repository resource as the server reports it: a repository that was
\* not cloned has no commit
ServerObject(s) ==
    DictUpdate(
        DictUpdate([rid |-> Name, name |-> Name, role |-> s.role, type |-> s.type,
                    vsid |-> s.vsid, status |-> s.status, url |-> s.url,
                    branch |-> s.branch, connection |-> "ssl"],
                   IF s.status = "CREATED" THEN EmptyDict ELSE [currentCommit |-> "c1"]),
        IF s.lean /\ s.config = <<>> THEN EmptyDict ELSE [config |-> s.config])

Restrict(d, keys) == [k \in DOMAIN d \cap keys |-> d[k]]

\* the entry of the repository in the repository list
ListEntry(s) == Restrict(ServerObject(s), s.listed)

\* the entry of another repository
OtherEntry(s, name) ==
    Restrict([rid |-> name, name |-> name, role |-> "SOURCE", type |-> "GITHUB",
              vsid |-> DefaultVsid, status |-> "READY", url |-> "u2",
              branch |-> "b2", currentCommit |-> "c2", connection |-> "ssl"],
             s.listed)

\* the repository list: the repository, when there is one, then the others
Listing(s) ==
    (IF s.exists THEN <<ListEntry(s)>> ELSE <<>>)
    \o [i \in 1..Len(s.others) |-> OtherEntry(s, s.others[i])]

RepoPath == <<"repository", Name>>

Request(method, path, params, body) ==
    [method |-> method, path |-> path, params |-> params, body |-> body]

\* does the server hold what the request addresses
Servable(s, req) ==
    CASE req.path = <<"repository">> /\ req.method = "POST" -> ~s.exists
      [] req.path = <<"repository">> -> TRUE
      [] req.path = <<"user", "credentials">> -> TRUE
      [] req.method = "GET" /\ Len(req.path) = 4 /\ req.path[3] = "config" ->
            s.exists /\ req.path[4] \in ListKeys(s.config)
      [] OTHER -> s.exists

\* why the server refuses a request it cannot serve
Refusal(s, req) ==
    IF req.path = <<"repository">> THEN "exists"
    ELSE IF s.exists THEN "generic" ELSE "notfound"

\* the server's state after it served the request
Served(s, req) ==
    CASE req.method = "POST" /\ req.path = <<"repository">> ->
            [exists |-> TRUE, lean |-> s.lean, status |-> s.creates, creates |-> s.creates,
             url |-> req.body.data.url, branch |-> "b1",
             config |-> IF "config" \in DOMAIN req.body.data
                        THEN req.body.data.config ELSE <<>>,
             role |-> req.body.data.role, type |-> req.body.data.type,
             vsid |-> req.body.data.vsid,
             listed |-> s.listed, others |-> s.others]
      [] req.method = "POST" /\ req.path = RepoPath ->
            [s EXCEPT !.url = req.body.url]
      [] req.method = "POST" /\ req.path = RepoPath \o <<"config">> ->
            [s EXCEPT !.config = _set_configuration_key(@, req.body.key, req.body.value)]
      [] req.method = "POST" /\ req.path = RepoPath \o <<"clone">> ->
            [s EXCEPT !.status = "READY"]
      [] req.method = "GET" /\ Len(req.path) = 5 /\ req.path[5] = "switch" ->
            [s EXCEPT !.branch = req.params[1]]
      [] req.method = "DELETE" ->
            [NoRepo(s.lean, s.creates) EXCEPT !.listed = s.listed, !.others = s.others]
      [] OTHER -> s

\* the JSON body of the server's answer (s is the state before the request)
Answer(s, req) ==
    CASE req.method = "POST" /\ req.path = <<"repository">> ->
            [repository |-> ServerObject(Served(s, req))]
      [] req.method = "GET" /\ req.path = <<"repository">> ->
            [result |-> Listing(s)]
      [] req.method = "GET" /\ req.path = RepoPath ->
            [result |-> ServerObject(s)]
      [] req.method = "GET" /\ Len(req.path) = 4 /\ req.path[3] = "config" ->
            [result |-> [key |-> req.path[4],
                         value |-> _config_list_to_dict(s.config).at[req.path[4]]]]
      [] req.method = "GET" /\ req.path = RepoPath \o <<"getCommit">> ->
            [commits |-> <<[id |-> "c1", author |-> "Author", authorMail |-> "author@host",
                            date |-> "2020-10-09", message |-> "Message"]>>]
      [] req.method = "GET" /\ req.path = RepoPath \o <<"pullByCommit">> ->
            [fromCommit |-> "c0", toCommit |-> "c1"]
      [] req.method = "GET" /\ Len(req.path) = 5 /\ req.path[5] = "switch" ->
            [result |-> [fromCommit |-> "c1", toCommit |-> "c1"]]
      [] OTHER -> EmptyDict

\* The reply a request gets: it reaches the server ("ok"), which serves or
\* refuses it, or it fails on the way.  Only the creation is made to fail in
\* every way there is: it is the one request whose kind of failure the caller
\* tells apart.
Replies == {"ok"} \cup Outages
CreateReplies == {"ok"} \cup Fails

-----------------------------------------------------------------------------
(* The connection and _RepositoryHttpProxy *)

\* The state an operation works on: the proxy's fields, the server, the
\* requests issued so far, the exception being raised (None while running
\* normally), the body of the last response and the value being returned.
World(d, c, sh, s) ==
    [data |-> d, config |-> c, shared |-> sh, srv |-> s,
     reqs |-> <<>>, exc |-> None, resp |-> EmptyDict, val |-> None]

\* what the trace keeps of a request, and how it ended
Sent(req, fate) ==
    [method |-> req.method, path |-> req.path, params |-> req.params,
     body |-> req.body, fate |-> fate]

\* how the request ends: "served", or the way it fails
Fate(s, req, reply) ==
    IF reply # "ok" THEN reply
    ELSE IF Servable(s, req) THEN "served"
    ELSE Refusal(s, req)

\* the request has been sent and has ended as fate says
Outcome(w, req, fate) ==
    IF fate = "served"
    THEN [w EXCEPT !.reqs = Append(@, Sent(req, fate)),
                   !.srv = Served(@, req),
                   !.resp = Answer(w.srv, req)]
    ELSE [w EXCEPT !.reqs = Append(@, Sent(req, fate)),
                   !.exc = Some(TransportError(fate))]

\* connection.execute / get_json / post_obj_as_json: the request is sent; it
\* is served, or an HTTPRequestError is raised.  rs holds the reply of each
\* request of the operation, in order.
Execute(w, req, rs) == Outcome(w, req, Fate(w.srv, req, rs[Len(w.reqs) + 1]))

Raised(w) == w.exc # None

\* r, the state a call ended in: an exception propagates, else Then goes on
Try(r, Then(_)) == IF Raised(r) THEN r ELSE Then(r)

\* a wrapper that lets the transport error through as it is
_http_unconverted(w) == w

_http_to_gcts_error(w) ==
    IF Raised(w) /\ w.exc[1].kind = "HTTPRequestError"
    THEN [w EXCEPT !.exc = Some(exception_from_http_error(w.exc[1]))]
    ELSE w

_build_url(path) == RepoPath \o path

http_get(w, path, params, rs) ==
    _http_to_gcts_error(Execute(w, Request("GET", _build_url(path), params, EmptyDict), rs))

http_get_json(w, path, rs) ==
    _http_to_gcts_error(Execute(w, Request("GET", _build_url(path), None, EmptyDict), rs))

http_post(w, path, rs) ==
    _http_to_gcts_error(Execute(w, Request("POST", _build_url(path), None, EmptyDict), rs))

http_post_obj_as_json(w, path, json, rs) ==
    _http_to_gcts_error(Execute(w, Request("POST", _build_url(path), None, json), rs))

\* a DELETE that leaves the name out of the path
http_delete_unnamed(w, rs) ==
    _http_to_gcts_error(Execute(w, Request("DELETE", <<"repository">>, None, EmptyDict), rs))

http_delete(w, rs) ==
    _http_to_gcts_error(Execute(w, Request("DELETE", _build_url(<<>>), None, EmptyDict), rs))

-----------------------------------------------------------------------------
(* Repository *)

Truthy(d) == d # None /\ d[1] # EmptyDict

\* self._config = self._data.get('config', None): the list of the snapshot itself
InitConfig(w) ==
    [w EXCEPT !.config = IF Truthy(w.data) THEN DictGet(w.data[1], "config") ELSE None,
              !.shared = Truthy(w.data) /\ "config" \in DOMAIN w.data[1]]

\* Repository(connection, name, data)
NewRepository(d, s) == InitConfig(World(d, None, FALSE, s))

_fetch_data(w, rs) ==
    Try(http_get_json(w, <<>>, rs),
        LAMBDA r : [r EXCEPT !.val = Some(r.resp.result)])

\* the list is changed in place: the snapshot sees it when it holds the same list
SetKey(w, old, key, value) ==
    [w EXCEPT !.config = Some(_set_configuration_key(old, key, value)),
              !.data = IF w.shared
                       THEN Some(DictUpdate(w.data[1],
                                    [config |-> _set_configuration_key(old, key, value)]))
                       ELSE @]

\* an update that leaves the cache as it is
_update_nothing(w, key, value) == w

_update_configuration(w, key, value) ==
    SetKey(w, IF w.config = None THEN <<>> ELSE w.config[1], key, value)

\* a read that fetches whether there is a snapshot or not
_get_item_fetch(w, item, rs) ==
    Try(_fetch_data(w, rs),
        LAMBDA r : [r EXCEPT !.data = r.val,
                             !.shared = FALSE,
                             !.val = DictGet(r.val[1], item)])

_get_item(w, item, rs) ==
    IF w.data = None
    THEN Try(_fetch_data(w, rs),
             LAMBDA r : [r EXCEPT !.data = r.val,
                                  !.shared = FALSE,
                                  !.val = DictGet(r.val[1], item)])
    ELSE [w EXCEPT !.val = DictGet(w.data[1], item)]

\* a wipe that forgets to clear
wipe_nothing(w) == w

wipe_data(w) ==
    [w EXCEPT !.data = None, !.config = None, !.shared = FALSE]

\* an is_cloned that never sees a clone
is_never_cloned(w, rs) ==
    Try(_get_item(w, "status", rs), LAMBDA r : [r EXCEPT !.val = Some(FALSE)])

is_cloned(w, rs) ==
    Try(_get_item(w, "status", rs),
        LAMBDA r : [r EXCEPT !.val = Some(r.val # Some("CREATED"))])

\* _config_list_to_dict(None) raises TypeError
configuration(w, rs) ==
    IF w.config = None
    THEN Try(_get_item(w, "config", rs),
             LAMBDA r : IF r.val = None
                        THEN [r EXCEPT !.config = None, !.exc = Some(PyError("TypeError"))]
                        ELSE [r EXCEPT !.config = r.val,
                                       !.shared = TRUE,
                                       !.val = Some(_config_list_to_dict(r.val[1]))])
    ELSE [w EXCEPT !.val = Some(_config_list_to_dict(w.config[1]))]

\* repo.update({...}) over the snapshot (self._data or {})
CreateFields(d, url, vsid, role, typ) ==
    DictUpdate(IF Truthy(d) THEN d[1] ELSE EmptyDict,
               [rid |-> Name, name |-> Name, vsid |-> vsid, url |-> url,
                role |-> role, type |-> typ, connection |-> "ssl"])

\* a payload whose config is the supplied mapping alone
CreateConfigSupplied(repo, cfg) ==
    IF cfg.order # <<>>
    THEN DictUpdate(repo, [config |-> _config_dict_to_list(cfg)])
    ELSE repo

\* if config: the supplied mapping is merged over the snapshot's config list
CreateConfig(repo, cfg) ==
    IF cfg.order # <<>>
    THEN DictUpdate(repo,
            [config |-> _config_dict_to_list(
                            PyDictUpdate(
                                _config_list_to_dict(
                                    IF "config" \in DOMAIN repo THEN repo.config ELSE <<>>),
                                cfg))])
    ELSE repo

\* the payload create() posts
CreatePayload(d, url, vsid, cfg, role, typ) ==
    CreateConfig(CreateFields(d, url, vsid, role, typ), cfg)

\* repo is self._data itself when that is a non-empty dict: it is updated in
\* place, before the request is sent
CreateInPlace(w, repo, cfg) ==
    IF Truthy(w.data)
    THEN [w EXCEPT !.data = Some(repo),
                   !.shared = IF cfg.order # <<>> THEN FALSE ELSE @]
    ELSE w

\* a create that leaves a snapshot it finds as it is
CreateResultKept(r, result) ==
    IF Truthy(r.data)
    THEN r
    ELSE [r EXCEPT !.data = Some(result), !.shared = FALSE]

\* self._data.update(result), or self._data = result
CreateResult(r, result) ==
    IF Truthy(r.data)
    THEN [r EXCEPT !.data = Some(DictUpdate(r.data[1], result)),
                   !.shared = IF "config" \in DOMAIN result THEN FALSE ELSE @]
    ELSE [r EXCEPT !.data = Some(result), !.shared = FALSE]

CreatePost(w, repo, cfg, rs) ==
    Try(_http_to_gcts_error(
            Execute(CreateInPlace(w, repo, cfg),
                    Request("POST", <<"repository">>, None,
                            [repository |-> Name, data |-> repo]),
                    rs)),
        LAMBDA r : CreateResult(r, r.resp.repository))

create(w, url, vsid, cfg, role, typ, rs) ==
    CreatePost(w, CreatePayload(w.data, url, vsid, cfg, role, typ), cfg, rs)

set_config(w, key, value, rs) ==
    Try(http_post_obj_as_json(w, <<"config">>, [key |-> key, value |-> value], rs),
        LAMBDA r : _update_configuration(r, key, value))

get_config(w, key, rs) ==
    Try(configuration(w, rs),
        LAMBDA c :
            IF key \in DOMAIN c.val[1].at
            THEN [c EXCEPT !.val = Some(c.val[1].at[key])]
            ELSE Try(http_get_json(c, <<"config", key>>, rs),
                     LAMBDA r : [_update_configuration(r, key, r.resp.result.value)
                                    EXCEPT !.val = Some(r.resp.result.value)]))

clone(w, rs) ==
    Try(http_post(w, <<"clone">>, rs),
        LAMBDA r : [wipe_data(r) EXCEPT !.val = Some(r.resp)])

\* a checkout that addresses the branch it switches to
checkout_target(w, branch, rs) ==
    Try(_get_item(w, "branch", rs),
        LAMBDA b :
            Try(http_get(b, <<"branches", branch, "switch">>, Some(branch), rs),
                LAMBDA r : [wipe_data(r) EXCEPT !.val = Some(r.resp.result)]))

\* f'branches/{self.branch}/switch'
checkout(w, branch, rs) ==
    Try(_get_item(w, "branch", rs),
        LAMBDA b :
            Try(http_get(b, <<"branches", IF b.val = None THEN "None" ELSE b.val[1], "switch">>,
                         Some(branch), rs),
                LAMBDA r : [wipe_data(r) EXCEPT !.val = Some(r.resp.result)]))

log(w, rs) ==
    Try(http_get_json(w, <<"getCommit">>, rs),
        LAMBDA r : [r EXCEPT !.val = Some(r.resp.commits)])

pull(w, rs) ==
    Try(http_get_json(w, <<"pullByCommit">>, rs),
        LAMBDA r : [wipe_data(r) EXCEPT !.val = Some(r.resp)])

delete(w, rs) ==
    Try(http_delete(w, rs),
        LAMBDA r : [wipe_data(r) EXCEPT !.val = Some(r.resp)])

commit_transport(w, corrnr, message, rs) ==
    Try(http_post_obj_as_json(w, <<"commit">>,
            [message |-> message, autoPush |-> "true",
             objects |-> <<[object |-> corrnr, type |-> "TRANSPORT"]>>], rs),
        LAMBDA r : [wipe_data(r) EXCEPT !.val = Some(r.resp)])

\* a set_url that posts whether the url differs or not
set_url_always(w, url, rs) ==
    Try(_fetch_data(w, rs),
        LAMBDA f :
            Try([http_post_obj_as_json(f, <<>>, DictUpdate(f.val[1], [url |-> url]), rs)
                    EXCEPT !.val = None],
                LAMBDA r : [r EXCEPT !.val = Some(r.resp)]))

\* the fetched data is posted back with the new url; self._data is not touched
set_url(w, url, rs) ==
    Try(_fetch_data(w, rs),
        LAMBDA f :
            IF "url" \notin DOMAIN f.val[1]
            THEN [f EXCEPT !.exc = Some(PyError("KeyError")), !.val = None]
            ELSE IF f.val[1].url = url
            THEN [f EXCEPT !.val = None]
            ELSE Try([http_post_obj_as_json(f, <<>>, DictUpdate(f.val[1], [url |-> url]), rs)
                        EXCEPT !.val = None],
                     LAMBDA r : [r EXCEPT !.val = Some(r.resp)]))

-----------------------------------------------------------------------------
(* Orchestration functions *)

\* the proxies of the list, last entry first
simple_fetch_reversed(s, rs) ==
    Try(_http_to_gcts_error(
            Execute(World(None, None, FALSE, s),
                    Request("GET", <<"repository">>, None, EmptyDict), rs)),
        LAMBDA r : [r EXCEPT !.val = [i \in 1..Len(r.resp.result) |->
                        NewRepository(Some(r.resp.result[Len(r.resp.result) + 1 - i]),
                                      r.srv)]])

\* the proxies of the list, each built over its entry
simple_fetch_repos(s, rs) ==
    Try(_http_to_gcts_error(
            Execute(World(None, None, FALSE, s),
                    Request("GET", <<"repository">>, None, EmptyDict), rs)),
        LAMBDA r : [r EXCEPT !.val = [i \in 1..Len(r.resp.result) |->
                                        NewRepository(Some(r.resp.result[i]), r.srv)]])

\* config = {}, then the two optional entries in this order
CloneConfig(start_dir, vcs_token) ==
    PyDictUpdate(
        IF start_dir # None
        THEN PyDict(<<"VCS_TARGET_DIR">>, [VCS_TARGET_DIR |-> start_dir[1]])
        ELSE PyDict(<<>>, EmptyDict),
        IF vcs_token # None
        THEN PyDict(<<"CLIENT_VCS_AUTH_TOKEN">>, [CLIENT_VCS_AUTH_TOKEN |-> vcs_token[1]])
        ELSE PyDict(<<>>, EmptyDict))

\* a handler that raises AlreadyExists whatever error_exists says
CloneRaiseAlways(c, error_exists) == c

\* a handler that swallows every error of create
CloneSwallowAll(c, error_exists) ==
    IF Raised(c) /\ ~error_exists THEN wipe_data([c EXCEPT !.exc = None]) ELSE c

\* except GCTSRepoAlreadyExistsError: raised again, or logged and the cache wiped
CloneExcept(c, error_exists) ==
    IF Raised(c) /\ c.exc[1].kind = "GCTSRepoAlreadyExistsError" /\ ~error_exists
    THEN wipe_data([c EXCEPT !.exc = None])
    ELSE c

\* if not repo.is_cloned: repo.clone(); return repo
CloneIfNot(q, rs) ==
    IF ~q.val[1]
    THEN Try(clone(q, rs), LAMBDA r : [r EXCEPT !.val = None])
    ELSE [q EXCEPT !.val = None]

\* start_dir and vcs_token: None (or empty) or the text
simple_clone(s, url, vsid, start_dir, vcs_token, error_exists, role, typ, rs) ==
    Try(CloneExcept(create(NewRepository(None, s), url, vsid,
                           CloneConfig(start_dir, vcs_token), role, typ, rs),
                    error_exists),
        LAMBDA c : Try(is_cloned(c, rs), LAMBDA q : CloneIfNot(q, rs)))

\* a simple_checkout that builds a proxy of its own whatever it is given
simple_checkout_by_name(w, branch, rs) ==
    [checkout(NewRepository(None, w.srv), branch, rs)
        EXCEPT !.data = w.data, !.config = w.config, !.shared = w.shared]

\* repo is the proxy given, or Repository(connection, name)
simple_checkout(w, branch, rs) == checkout(w, branch, rs)

simple_log(w, rs) == log(w, rs)

simple_pull(w, rs) == pull(w, rs)

simple_delete(s, rs) == delete(NewRepository(None, s), rs)

\* connection.post_obj_as_json('user/credentials', body): the transport error
\* is not converted; nothing is returned
simple_set_user_api_token(w, api_url, token, rs) ==
    [Execute([w EXCEPT !.val = None],
             Request("POST", <<"user", "credentials">>, None,
                     [endpoint |-> api_url, user |-> "", password |-> "",
                      token |-> token, type |-> "token"]),
             rs)
        EXCEPT !.val = None]

-----------------------------------------------------------------------------
(* The state machine: one caller, one proxy, one server *)

Min(a, b) == IF a < b THEN a ELSE b

ValuesOf(key) == IF key = "VCS_TARGET_DIR" THEN Dirs ELSE Tokens

Settings == {kv \in Keys \X (Dirs \cup Tokens) : kv[2] \in ValuesOf(kv[1])}

\* config lists without repeated keys, as the server keeps them
ConfigLists ==
    {<<>>}
    \cup {<<[key |-> kv[1], value |-> kv[2]]>> : kv \in Settings}
    \cup {<<[key |-> p[1][1], value |-> p[1][2]], [key |-> p[2][1], value |-> p[2][2]]>> :
            p \in {q \in Settings \X Settings : q[1][1] # q[2][1]}}

\* the replies of an operation of up to two or three requests: a failure ends
\* the operation, but for the AlreadyExists that simple_clone tolerates
RS1 == {<<x>> : x \in Replies}
RS2 == {<<"ok", x>> : x \in Replies} \cup {<<f, "ok">> : f \in Outages}
RSCreate == {<<x>> : x \in CreateReplies}
RSClone == {<<x>> \o t : x \in {"ok", "exists"}, t \in RS2}
           \cup {<<f, "ok", "ok">> : f \in Fails \ {"exists"}}

Mutators == {"clone", "checkout", "pull", "delete", "commit_transport"}

Attributes == {"rid", "status", "vsid", "url", "branch", "head"}

\* the snapshot key behind each attribute property
ItemOf(attr) == IF attr = "head" THEN "currentCommit" ELSE attr

IsFetch(req) == req.method = "GET" /\ req.path = RepoPath

NumFetches(rq) == Cardinality({i \in 1..Len(rq) : IsFetch(rq[i])})

Idle ==
    [mut |-> "", loaded |-> FALSE, reads |-> 0, first |-> 0, gets |-> 0,
     failed |-> FALSE, prev |-> <<>>]

\* the attribute reads since the last cache-clearing operation that succeeded,
\* the fetches of the first of them and of all of them, and whether one of
\* them raised; any other operation in between ends the count
ReadsAfter(o, r) ==
    IF o.name \in Mutators /\ ~Raised(r)
    THEN [Idle EXCEPT !.mut = o.name, !.loaded = o.loaded]
    ELSE IF o.name \in Attributes /\ hist.mut # ""
    THEN [hist EXCEPT !.reads = Min(@ + 1, MaxReads),
                      !.first = IF hist.reads = 0 THEN NumFetches(r.reqs) ELSE @,
                      !.gets = Min(@ + NumFetches(r.reqs), MaxReads),
                      !.failed = @ \/ Raised(r)]
    ELSE Idle

\* the pairs of operations, one right after the other, that are followed
Sequels ==
    {<<"set_config", "get_config">>, <<"get_config", "get_config">>,
     <<"set_url", "set_url">>, <<"checkout", "checkout">>}
    \cup {<<"simple_fetch_repos", a>> : a \in {"name"} \cup Attributes}
    \cup {<<"create", a>> : a \in Attributes}

\* what an operation keeps of the operation that succeeded just before it
Before(o) ==
    IF <<op.name, o.name>> \in Sequels /\ ret.exc = None
    THEN <<[name |-> op.name, args |-> op.args, val |-> ret.val, sent |-> Len(reqs),
            loaded |-> op.loaded]>>
    ELSE <<>>

NextHist(o, r) == [ReadsAfter(o, r) EXCEPT !.prev = Before(o)]

\* an operation called on the proxy w0: its name, its arguments, and whether
\* the proxy held a snapshot and a config cache when it was called
Op(name, args, flag, w0) ==
    [name |-> name, args |-> args, flag |-> flag,
     loaded |-> w0.data # None, cached |-> w0.config # None]

\* the operation o ended in r
Done(o, r) ==
    /\ srv' = r.srv
    /\ _data' = r.data
    /\ _config' = r.config
    /\ shared' = r.shared
    /\ op' = o
    /\ reqs' = r.reqs
    /\ ret' = [exc |-> r.exc, val |-> IF Raised(r) THEN None ELSE r.val]
    /\ hist' = NextHist(o, r)

Self == World(_data, _config, shared, srv)

Fresh == NewRepository(None, srv)

\* the proxy the caller starts with: Repository(connection, name), or one
\* pre-populated with its entry of the repository list
InitWith(servers) ==
    /\ srv \in servers
    /\ \E w \in {NewRepository(None, srv)}
               \cup {NewRepository(Some(ListEntry(s)), s) : s \in {t \in {srv} : t.exists}} :
          /\ _data = w.data
          /\ _config = w.config
          /\ shared = w.shared
          /\ op = Op("Repository", <<>>, FALSE, w)
    /\ reqs = <<>>
    /\ ret = [exc |-> None, val |-> None]
    /\ hist = Idle

Construct == Done(Op("Repository", <<>>, FALSE, Fresh), Fresh)

ReadAttribute(attrs) ==
    \E attr \in attrs, rs \in RS1 :
        Done(Op(attr, <<>>, FALSE, Self), _get_item(Self, ItemOf(attr), rs))

\* Repository.name: the name the proxy was built with
ReadName == Done(Op("name", <<>>, FALSE, Self), [Self EXCEPT !.val = Some(Name)])

ReadIsCloned ==
    \E rs \in RS1 :
        Done(Op("is_cloned", <<>>, FALSE, Self), is_cloned(Self, rs))

ReadConfiguration ==
    \E rs \in RS1 :
        Done(Op("configuration", <<>>, FALSE, Self), configuration(Self, rs))

\* create(url, vsid, config, role, typ); None stands for config=None
CreateAs(urls, vsids, cfgs, roles, typs) ==
    \E url \in urls, vsid \in vsids, cfg \in cfgs, role \in roles, typ \in typs,
       rs \in RSCreate :
        Done(Op("create", <<url, vsid, cfg, role, typ>>, FALSE, Self),
             [create(Self, url, vsid, IF cfg = None THEN NoConfig ELSE cfg[1], role, typ, rs)
                EXCEPT !.val = None])

\* create(url, vsid, config) with the default role and type
Create(urls, cfgs) ==
    CreateAs(urls, {DefaultVsid}, {Some(cfg) : cfg \in cfgs}, {"SOURCE"}, {"GITHUB"})

SetConfig(settings) ==
    \E kv \in settings, rs \in RS1 :
        Done(Op("set_config", kv, FALSE, Self), set_config(Self, kv[1], kv[2], rs))

GetConfig(keys) ==
    \E key \in keys, rs \in RS2 :
        Done(Op("get_config", <<key>>, FALSE, Self), get_config(Self, key, rs))

Clone ==
    \E rs \in RS1 :
        Done(Op("clone", <<>>, FALSE, Self), clone(Self, rs))

Checkout ==
    \E branch \in Branches, rs \in RS2 :
        Done(Op("checkout", <<branch>>, FALSE, Self), simple_checkout(Self, branch, rs))

Log ==
    \E rs \in RS1 :
        Done(Op("log", <<>>, FALSE, Self), simple_log(Self, rs))

Pull ==
    \E rs \in RS1 :
        Done(Op("pull", <<>>, FALSE, Self), simple_pull(Self, rs))

Delete ==
    \E rs \in RS1 :
        Done(Op("delete", <<>>, FALSE, Self), delete(Self, rs))

CommitTransport ==
    \E rs \in RS1 :
        Done(Op("commit_transport", <<>>, FALSE, Self),
             commit_transport(Self, "C50K000167", "Transport C50K000167", rs))

SetUrl ==
    \E url \in Urls, rs \in RS2 :
        Done(Op("set_url", <<url>>, FALSE, Self), set_url(Self, url, rs))

SimpleClone(urls, dirs, tokens) ==
    \E url \in urls, start_dir \in dirs, vcs_token \in tokens,
       error_exists \in BOOLEAN, rs \in RSClone :
        Done(Op("simple_clone", <<url>>, error_exists, Fresh),
             simple_clone(srv, url, DefaultVsid, start_dir, vcs_token, error_exists,
                          "SOURCE", "GITHUB", rs))

SimpleDelete ==
    \E rs \in RS1 :
        Done(Op("simple_delete", <<>>, FALSE, Fresh), simple_delete(srv, rs))

\* simple_delete(connection, name) called by one who holds a proxy: the
\* repository is deleted through a proxy of its own, the one held is not
\* touched
Kept(r) == [r EXCEPT !.data = _data, !.config = _config, !.shared = shared]

DeleteByName ==
    \E rs \in RS1 :
        Done(Op("simple_delete", <<>>, TRUE, Self), Kept(simple_delete(srv, rs)))

SimpleSetUserApiToken ==
    \E rs \in RS1 :
        Done(Op("simple_set_user_api_token", <<>>, FALSE, Self),
             simple_set_user_api_token(Self, "https://api.github.com", "tok", rs))

\* the caller goes on with the proxy mine; what is returned is kept as the
\* snapshots of the proxies, in the order of the list
Holding(r, mine) ==
    [r EXCEPT !.data = mine.data, !.config = mine.config, !.shared = mine.shared,
              !.val = IF Raised(r) THEN None
                      ELSE Some([i \in 1..Len(r.val) |-> r.val[i].data])]

\* the proxy of the repository when the list opens with it, or a new one
FirstOf(r) ==
    Holding(r, IF ~Raised(r) /\ Len(r.val) > 0 /\ r.val[1].data[1].name = Name
               THEN r.val[1] ELSE NewRepository(None, r.srv))

SimpleFetchRepos ==
    \E rs \in RS1 :
        Done(Op("simple_fetch_repos", <<>>, FALSE, Fresh), FirstOf(simple_fetch_repos(srv, rs)))

-----------------------------------------------------------------------------
(* Spec: the life of a repository, every operation of the proxy *)

Servers ==
    {NoRepo(FALSE, status) : status \in Statuses}
    \cup {[NoRepo(FALSE, status) EXCEPT !.exists = TRUE, !.config = config] :
            status \in Statuses,
            config \in {<<>>, <<[key |-> "VCS_TARGET_DIR", value |-> "src/"]>>}}

Init == InitWith(Servers)

Next ==
    \/ Construct
    \/ ReadAttribute(Attributes)
    \/ ReadIsCloned
    \/ ReadConfiguration
    \/ Create({"u1"}, {NoConfig, TargetDir("src/")})
    \/ SetConfig({<<"VCS_TARGET_DIR", "src/">>})
    \/ GetConfig({"VCS_TARGET_DIR"})
    \/ Clone
    \/ Checkout
    \/ Log
    \/ Pull
    \/ Delete
    \/ CommitTransport
    \/ SetUrl
    \/ SimpleClone({"u1"}, {Some("src/")}, {None})
    \/ SimpleDelete
    \/ SimpleFetchRepos
    \/ SimpleSetUserApiToken

Spec == Init /\ [][Next]_vars

-----------------------------------------------------------------------------
(* SpecConfig: the configuration of one repository, every config list *)

\* a repository in every configuration, on servers that report an empty config
\* list and on servers that leave it out; and no repository
ConfigServers ==
    {NoRepo(lean, "CREATED") : lean \in BOOLEAN}
    \cup {[NoRepo(lean, "CREATED") EXCEPT !.exists = TRUE, !.config = config] :
            lean \in BOOLEAN, config \in ConfigLists}

InitConfigs == InitWith(ConfigServers)

NextConfig ==
    \/ Construct
    \/ SimpleFetchRepos
    \/ ReadAttribute({"url"})
    \/ ReadConfiguration
    \/ SetConfig(Settings)
    \/ GetConfig(Keys)
    \/ Create({"u1"}, {NoConfig, TargetDir("lib/")})
    \/ Pull
    \/ Delete

SpecConfig == InitConfigs /\ [][NextConfig]_vars

-----------------------------------------------------------------------------
(* Cache invalidation: C1, C2, C3 *)

Succeeded == ret.exc = None

\* a mutator that succeeded has cleared the snapshot and the config cache
ClearedByMutator ==
    (op.name \in Mutators /\ Succeeded) => (_data = None /\ _config = None)

\* the first attribute read after it fetched the repository once
FirstReadFetchesOnce == hist.reads >= 1 => hist.first = 1

\* C1, as amended: a successful clone, checkout, pull, delete or
\* commit_transport clears the snapshot and the config cache; the next
\* attribute read issues exactly one GET of the repository; and as long as no
\* attribute read has raised, the reads after it issue none.
C1_ClearThenOneFetch ==
    /\ ClearedByMutator
    /\ FirstReadFetchesOnce
    /\ (hist.reads >= 1 /\ ~hist.failed) => hist.gets = 1

\* C1 witness: a checkout succeeded on a loaded proxy, and MaxReads attribute
\* reads after it were served by a single fetch
C1_Witness ==
    /\ hist.mut = "checkout" /\ hist.loaded
    /\ hist.reads = MaxReads /\ ~hist.failed /\ hist.gets = 1

\* C1 as stated: after a mutator that succeeded on a loaded proxy, the reads
\* after the first issue no GET, whatever the first read's fetch came to
C1_AsStated ==
    /\ ClearedByMutator
    /\ FirstReadFetchesOnce
    /\ (hist.reads >= 1 /\ hist.loaded) => hist.gets = 1

\* C2 as stated: when the HTTP call of a mutator raises on a loaded proxy, the
\* snapshot is cleared nonetheless
C2_ClearedOnFailure ==
    (/\ op.name \in Mutators /\ op.loaded
     /\ ~Succeeded
     /\ reqs # <<>> /\ reqs[Len(reqs)].fate # "served")
        => _data = None

\* C3 as stated, its particular case: a successful set_url(u) on a loaded
\* proxy, then a successful read of url, returns u
C3_SetUrlThenReadUrl ==
    [][(/\ op.name = "set_url" /\ op.loaded /\ Succeeded
        /\ op'.name = "url" /\ ret'.exc = None)
            => ret'.val = Some(op.args[1])]_vars

-----------------------------------------------------------------------------
(* simple_clone and the propagation of errors: C4, C5, C6 *)

IsCreatePost(q) == q.method = "POST" /\ q.path = <<"repository">>

IsClonePost(q) == q.method = "POST" /\ q.path = RepoPath \o <<"clone">>

ClonePosts(rq) == {i \in 1..Len(rq) : IsClonePost(rq[i])}

\* the exceptions a failed request can surface as: the transport error, or
\* the domain error made of it
Surfaced(fate) ==
    {TransportError(fate), exception_from_http_error(TransportError(fate))}

\* create failed with AlreadyExists and error_exists is false
Tolerated(o, rq) ==
    o.name = "simple_clone" /\ ~o.flag /\ rq # <<>> /\ rq[1].fate = "exists"

\* C4: in simple_clone with error_exists false, when create fails with
\* AlreadyExists, that error is not raised; the repository is fetched anew;
\* and the clone POST is issued exactly when the fetched status is CREATED.
\* (srv.status, before the call, is the status the fetch reports.)
C4_ToleratedThenRefetch ==
    [][Tolerated(op', reqs') =>
        /\ Len(reqs') >= 2 /\ IsFetch(reqs'[2])
        /\ ret'.exc # None =>
            (/\ ret'.exc[1].kind # "GCTSRepoAlreadyExistsError"
             /\ reqs'[Len(reqs')].fate # "served")
        /\ reqs'[2].fate = "served" =>
            /\ (ClonePosts(reqs') # {}) <=> (srv.status = "CREATED")
            /\ ClonePosts(reqs') \subseteq {3}
            /\ Len(reqs') = IF srv.status = "CREATED" THEN 3 ELSE 2]_vars

\* C4 witness: AlreadyExists was tolerated, the refetch reported CREATED and
\* the clone POST was served
C4_Witness ==
    /\ Tolerated(op, reqs) /\ Succeeded
    /\ Len(reqs) = 3 /\ IsFetch(reqs[2]) /\ IsClonePost(reqs[3])

\* C5: simple_clone issues the clone POST at most once, after the create
\* POST, and only when the status the proxy observes is CREATED; when create
\* succeeds and its response reports CREATED, one clone POST follows at once,
\* and the proxy returned has no snapshot.  (srv.status, before the call, is
\* the status the server reports during it: in the create response, or in the
\* refetch.)
C5_CloneAtMostOnce ==
    [][op'.name = "simple_clone" =>
        /\ Cardinality(ClonePosts(reqs')) <= 1
        /\ \A i \in ClonePosts(reqs') :
              i > 1 /\ IsCreatePost(reqs'[1]) /\ srv.status = "CREATED"
        /\ (reqs' # <<>> /\ reqs'[1].fate = "served" /\ srv.status = "CREATED") =>
              /\ Len(reqs') = 2 /\ IsClonePost(reqs'[2])
              /\ ret'.exc = None => (_data' = None /\ _config' = None)
        /\ (reqs' # <<>> /\ reqs'[1].fate = "served" /\ srv.status # "CREATED") =>
              Len(reqs') = 1 /\ ret'.exc = None]_vars

\* C5 witness: create succeeded, one clone POST followed and the proxy came
\* back with its snapshot cleared
C5_Witness ==
    /\ op.name = "simple_clone" /\ Succeeded
    /\ Len(reqs) = 2 /\ reqs[1].fate = "served" /\ IsClonePost(reqs[2])
    /\ _data = None

\* C6: a request that failed ends its operation with the error it surfaces
\* as, and nothing is sent after it; but for the AlreadyExists of create that
\* simple_clone tolerates when error_exists is false.
C6_NoErrorSwallowed ==
    \A i \in 1..Len(reqs) :
        reqs[i].fate # "served" =>
            \/ /\ i = Len(reqs)
               /\ ~Succeeded
               /\ ret.exc[1] \in Surfaced(reqs[i].fate)
            \/ i = 1 /\ Tolerated(op, reqs)

\* C6 witness: simple_clone with error_exists true raised the AlreadyExists
\* of create, after the one request
C6_Witness ==
    /\ op.name = "simple_clone" /\ op.flag
    /\ Len(reqs) = 1 /\ reqs[1].fate = "exists"
    /\ ~Succeeded /\ ret.exc[1].kind = "GCTSRepoAlreadyExistsError"

-----------------------------------------------------------------------------
(* The configuration cache: C7, C8, C9, C10 *)

IsConfigGet(q, key) == q.method = "GET" /\ q.path = RepoPath \o <<"config", key>>

IsConfigPost(q) == q.method = "POST" /\ q.path = RepoPath \o <<"config">>

\* C7: a successful set_config(k, v) followed by get_config(k) returns v and
\* sends no request, the snapshot loaded or not.
C7_SetThenGet ==
    [][(/\ op.name = "set_config" /\ Succeeded
        /\ op'.name = "get_config" /\ op'.args = <<op.args[1]>>)
            => (ret'.exc = None /\ ret'.val = Some(op.args[2]) /\ reqs' = <<>>)]_vars

\* C7 witness: on a proxy without snapshot, get_config(k) after a successful
\* set_config(k, v) returned v with no request
C7_Witness ==
    /\ op.name = "get_config" /\ ~op.loaded /\ Succeeded /\ reqs = <<>>
    /\ hist.prev # <<>> /\ hist.prev[1].name = "set_config"
    /\ hist.prev[1].args = op.args \o <<ret.val[1]>>

\* the keys of the proxy's configuration view: those of the config cache;
\* without one, those of the snapshot's config list; without a snapshot, those
\* of the list the fetch brings; no list, no keys
ViewKeys ==
    IF _config # None THEN ListKeys(_config[1])
    ELSE IF _data # None
    THEN (IF "config" \in DOMAIN _data[1] THEN ListKeys(_data[1].config) ELSE {})
    ELSE (IF "config" \in DOMAIN ServerObject(srv) THEN ListKeys(srv.config) ELSE {})

\* the repository is there and the requests of the call, but the GET of the
\* key itself, were served
FetchServed(rq) ==
    srv.exists /\ \A i \in 1..Len(rq) : IsFetch(rq[i]) => rq[i].fate = "served"

\* C8 as stated: get_config(k) sends GET config/k exactly when k is not in the
\* configuration view; a second get_config(k) right after a successful one
\* returns the same value and sends nothing
C8_GetOnMissOnly ==
    [][op'.name = "get_config" =>
        /\ FetchServed(reqs') =>
            ((\E i \in 1..Len(reqs') : IsConfigGet(reqs'[i], op'.args[1]))
                <=> (op'.args[1] \notin ViewKeys))
        /\ (op.name = "get_config" /\ Succeeded /\ op'.args = op.args) =>
            (ret'.exc = None /\ ret'.val = ret.val /\ reqs' = <<>>)]_vars

\* C9 as stated: the mapping that configuration returns has every key of the
\* server's config list, with the server's value
C9_ViewInSync ==
    (op.name = "configuration" /\ Succeeded) =>
        \A k \in ListKeys(srv.config) :
            /\ k \in DOMAIN ret.val[1].at
            /\ ret.val[1].at[k] = _config_list_to_dict(srv.config).at[k]

\* the fields of a snapshot but config
Fields(d) == IF d = None THEN {} ELSE DOMAIN d[1] \ {"config"}

ListOf(c) == IF c = None THEN <<>> ELSE c[1]

\* C10: a successful set_config(k, v) sends one POST to config and nothing
\* else; the snapshot stays loaded or unloaded, with its fields other than
\* config as they were; the config cache maps k to v, holds k once, and keeps
\* every other key with its value.
C10_SetConfigFrame ==
    [][(op'.name = "set_config" /\ ret'.exc = None) =>
        /\ Len(reqs') = 1 /\ IsConfigPost(reqs'[1])
        /\ (_data' = None) <=> (_data = None)
        /\ Fields(_data') = Fields(_data)
        /\ \A f \in Fields(_data) : _data'[1][f] = _data[1][f]
        /\ _config' # None
        /\ ListKeys(_config'[1]) = ListKeys(ListOf(_config)) \cup {op'.args[1]}
        /\ Len(_config'[1]) = Cardinality(ListKeys(_config'[1]))
        /\ _config_list_to_dict(_config'[1]).at[op'.args[1]] = op'.args[2]
        /\ \A k \in ListKeys(ListOf(_config)) \ {op'.args[1]} :
              _config_list_to_dict(_config'[1]).at[k]
                  = _config_list_to_dict(ListOf(_config)).at[k]
        /\ Len(_config'[1]) =
              Len(ListOf(_config))
              + (IF op'.args[1] \in ListKeys(ListOf(_config)) THEN 0 ELSE 1)]_vars

\* C10 witness: set_config succeeded on a loaded proxy whose config cache held
\* the other key, and now holds both
C10_Witness ==
    /\ op.name = "set_config" /\ Succeeded /\ op.loaded /\ op.cached
    /\ Len(reqs) = 1 /\ IsConfigPost(reqs[1])
    /\ ListKeys(_config[1]) = Keys

\* C28 as stated: reading configuration, and so get_config, raises only
\* when a request fails: with every request served, the fetch of the
\* repository first, they return, a snapshot without 'config' reading as the
\* empty mapping.
C28_ConfigurationNeverFails ==
    (/\ op.name \in {"configuration", "get_config"}
     /\ \A i \in 1..Len(reqs) : reqs[i].fate = "served")
        => Succeeded

\* the server holds the value v at the key k of the repository
ServerHolds(s, k, v) ==
    /\ s.exists
    /\ \E i \in 1..Len(s.config) : s.config[i].key = k /\ s.config[i].value = v

\* the read reported v for k: get_config(k) returned it, or the mapping
\* configuration returned has it at k
Reported(o, r, k, v) ==
    /\ r.exc = None
    /\ \/ o.name = "get_config" /\ o.args = <<k>> /\ r.val = Some(v)
       \/ /\ o.name = "configuration"
          /\ k \in DOMAIN r.val[1].at
          /\ r.val[1].at[k] = v

\* C26 as stated: a set_config(k, v) that raised leaves the config cache and the
\* snapshot as they were, and a get_config(k) or configuration read right
\* after it reports v for k only if the server holds v at k.
C26_FailedSetConfig ==
    [][/\ (op'.name = "set_config" /\ ret'.exc # None) =>
            (_config' = _config /\ _data' = _data)
       /\ (op.name = "set_config" /\ ~Succeeded
           /\ Reported(op', ret', op.args[1], op.args[2])) =>
            ServerHolds(srv', op.args[1], op.args[2])]_vars

-----------------------------------------------------------------------------
(* set_url: C11 *)

IsUrlPost(q) == q.method = "POST" /\ q.path = RepoPath

\* C11: every set_url(u) starts with one GET of the repository and issues no
\* other, the snapshot loaded or not; a call that succeeds sends one POST of
\* the repository after it when the server's url differs from u, and the
\* server then holds u; it sends none and returns None when the url is u
\* already, as it is in a second set_url(u) right after a successful one.
C11_SetUrlIdempotent ==
    [][op'.name = "set_url" =>
        /\ reqs' # <<>> /\ IsFetch(reqs'[1]) /\ NumFetches(reqs') = 1
        /\ ret'.exc = None =>
            /\ srv'.url = op'.args[1]
            /\ IF srv.url = op'.args[1]
               THEN Len(reqs') = 1 /\ ret'.val = None
               ELSE Len(reqs') = 2 /\ IsUrlPost(reqs'[2])
            /\ (op.name = "set_url" /\ Succeeded /\ op.args = op'.args) =>
                  (Len(reqs') = 1 /\ ret'.val = None)]_vars

\* C11 witness: on a loaded proxy, set_url(u) sent its GET and its POST, and
\* the set_url(u) right after it sent its GET only and returned None
C11_Witness ==
    /\ op.name = "set_url" /\ op.loaded /\ Succeeded
    /\ Len(reqs) = 1 /\ IsFetch(reqs[1]) /\ ret.val = None
    /\ hist.prev # <<>> /\ hist.prev[1].name = "set_url"
    /\ hist.prev[1].args = op.args /\ hist.prev[1].sent = 2

-----------------------------------------------------------------------------
(* SpecErrors: the classification of transport errors: C12, C13, C14 *)

\* the Content-Type headers of a response: JSON with and without parameters,
\* another type, and none
HeaderSets ==
    {JsonHeaders, [Content_Type |-> <<"application/json">>], HtmlHeaders, EmptyDict}

\* message texts that end with the suffix, are the suffix, hold it before
\* other text, and do not hold it
EndingText == <<"20200923111743: ">> \o AlreadyExistsSuffix
MiddleText == AlreadyExistsSuffix \o <<" (retry)">>
OtherText == <<"Failure">>

\* the logs of an error body: empty, of one entry and of two; an entry may
\* lack its message
Logs ==
    {<<>>,
     <<[message |-> EndingText]>>,
     <<[message |-> AlreadyExistsSuffix]>>,
     <<[message |-> MiddleText]>>,
     <<[message |-> OtherText]>>,
     <<[severity |-> "ERROR"]>>,
     <<[message |-> OtherText], [message |-> EndingText]>>,
     <<[message |-> EndingText], [message |-> OtherText]>>}

Exceptions == {NoRelation, "Cannot create"}

\* the parsed body: log, exception and errorLog, each there or not
Body(entries, exception, errorLog) ==
    DictUpdate(DictUpdate(IF entries = None THEN EmptyDict ELSE [log |-> entries[1]],
                          IF exception = None THEN EmptyDict
                          ELSE [exception |-> exception[1]]),
               IF errorLog THEN [errorLog |-> <<"trace">>] ELSE EmptyDict)

Bodies ==
    {Body(l, e, x) : l \in {None} \cup {Some(g) : g \in Logs},
                     e \in {None} \cup {Some(t) : t \in Exceptions},
                     x \in BOOLEAN}

HttpErrors == {HTTPRequestError(h, m) : h \in HeaderSets, m \in Bodies}

\* exception_from_http_error(ex) for a transport error of any response
Classify(errors) ==
    \E ex \in errors :
        Done(Op("exception_from_http_error", <<ex>>, FALSE, Self),
             [Self EXCEPT !.val = Some(exception_from_http_error(ex))])

InitErrors == InitWith({NoRepo(FALSE, "CREATED")})

NextErrors == Classify(HttpErrors)

SpecErrors == InitErrors /\ [][NextErrors]_vars

Classified == op.name = "exception_from_http_error"

IsJson(ex) ==
    /\ "Content_Type" \in DOMAIN ex.headers
    /\ Contains(ex.headers.Content_Type, "application/json")

\* the log of the body is non-empty and the message of its first entry ends
\* with the suffix
FirstLogMatches(m) ==
    /\ "log" \in DOMAIN m
    /\ Len(m.log) > 0
    /\ "message" \in DOMAIN m.log[1]
    /\ EndsWith(m.log[1].message, AlreadyExistsSuffix)

NoRelationReported(m) == "exception" \in DOMAIN m /\ m.exception = NoRelation

\* C12: for a transport error with a JSON body the result is AlreadyExists
\* exactly when the log is non-empty and its first message ends with the
\* suffix; if not, it is NotExists exactly when the exception is the
\* no-relation text; if not, it is the generic request error.
C12_Classification ==
    (Classified /\ IsJson(op.args[1])) =>
        ret.val[1].kind =
            IF FirstLogMatches(op.args[1].messages) THEN "GCTSRepoAlreadyExistsError"
            ELSE IF NoRelationReported(op.args[1].messages) THEN "GCTSRepoNotExistsError"
            ELSE "GCTSRequestError"

\* C12 witness: both patterns match, the log holding a second entry, and the
\* result is AlreadyExists
C12_Witness ==
    /\ Classified /\ IsJson(op.args[1])
    /\ FirstLogMatches(op.args[1].messages) /\ Len(op.args[1].messages.log) = 2
    /\ NoRelationReported(op.args[1].messages)
    /\ ret.val[1].kind = "GCTSRepoAlreadyExistsError"

\* C13: a transport error whose response is not application/json, or has no
\* Content-Type, is returned as it is; a domain error is made of
\* application/json responses only.
C13_NotJsonUnchanged ==
    Classified =>
        /\ ~IsJson(op.args[1]) => ret.val[1] = op.args[1]
        /\ ret.val[1].kind # "HTTPRequestError" => IsJson(op.args[1])

\* C13 witness: a response without Content-Type whose body matches a pattern
\* came back as the transport error it was
C13_Witness ==
    /\ Classified /\ op.args[1].headers = EmptyDict
    /\ FirstLogMatches(op.args[1].messages)
    /\ ret.val[1] = op.args[1]

\* C14: a NotExists error carries the body with its exception replaced by
\* 'Repository does not exist' and every other key as it was; the generic
\* error and AlreadyExists carry the body as it was.
C14_Messages ==
    (Classified /\ ret.val[1].kind # "HTTPRequestError") =>
        IF ret.val[1].kind = "GCTSRepoNotExistsError"
        THEN /\ DOMAIN ret.val[1].messages = DOMAIN op.args[1].messages
             /\ ret.val[1].messages.exception = "Repository does not exist"
             /\ \A k \in DOMAIN op.args[1].messages \ {"exception"} :
                   ret.val[1].messages[k] = op.args[1].messages[k]
        ELSE ret.val[1].messages = op.args[1].messages

\* C14 witness: a NotExists error made of a body that holds a log and an
\* errorLog besides the exception
C14_Witness ==
    /\ Classified /\ ret.val[1].kind = "GCTSRepoNotExistsError"
    /\ {"log", "errorLog"} \subseteq DOMAIN ret.val[1].messages
    /\ ret.val[1].messages.log = op.args[1].messages.log

-----------------------------------------------------------------------------
(* The conversion of transport errors in the operations: C15 *)

DomainErrors ==
    {"GCTSRequestError", "GCTSRepoAlreadyExistsError", "GCTSRepoNotExistsError"}

\* C15: when the last request of an operation of the proxy, of simple_clone,
\* simple_delete or simple_fetch_repos failed and the operation raised, what
\* it raised is exception_from_http_error of the transport error: a domain
\* error whenever the response was application/json.
C15_ErrorsConverted ==
    (/\ op.name # "simple_set_user_api_token"
     /\ ~Succeeded /\ reqs # <<>> /\ reqs[Len(reqs)].fate # "served") =>
        /\ ret.exc[1] = exception_from_http_error(TransportError(reqs[Len(reqs)].fate))
        /\ IsJson(TransportError(reqs[Len(reqs)].fate)) => ret.exc[1].kind \in DomainErrors

\* C15 witness: the GET of the repository collection failed with a JSON body
\* and simple_fetch_repos raised the generic domain error
C15_Witness ==
    /\ op.name = "simple_fetch_repos" /\ ~Succeeded
    /\ Len(reqs) = 1 /\ reqs[1].fate = "generic"
    /\ ret.exc[1].kind = "GCTSRequestError"

-----------------------------------------------------------------------------
(* checkout: C16 *)

\* GET branches/{c}/switch?branch=b
IsSwitch(q, c, b) ==
    /\ q.method = "GET"
    /\ q.path = RepoPath \o <<"branches", c, "switch">>
    /\ q.params = Some(b)

\* the branch a snapshot holds, as it is formatted into the path
BranchOf(d) == IF "branch" \in DOMAIN d THEN d.branch ELSE "None"

\* C16: checkout(b) on a loaded proxy issues GET branches/{c}/switch with
\* branch=b and nothing else, c the branch of the snapshot; on an unloaded
\* proxy it fetches the repository first and c is the branch the server
\* reports; a checkout right after a successful checkout(b1) fetches, and its
\* path holds b1.
C16_CheckoutPath ==
    [][op'.name = "checkout" =>
        /\ _data # None =>
              /\ Len(reqs') = 1
              /\ IsSwitch(reqs'[1], BranchOf(_data[1]), op'.args[1])
        /\ _data = None =>
              /\ reqs' # <<>> /\ IsFetch(reqs'[1])
              /\ reqs'[1].fate = "served" =>
                    /\ Len(reqs') = 2
                    /\ IsSwitch(reqs'[2], srv.branch, op'.args[1])
        /\ (op.name = "checkout" /\ Succeeded) =>
              /\ reqs' # <<>> /\ IsFetch(reqs'[1])
              /\ reqs'[1].fate = "served" =>
                    IsSwitch(reqs'[2], op.args[1], op'.args[1])]_vars

\* C16 witness: after a successful checkout to b2, a checkout to b1 fetched
\* the repository and was served at branches/b2/switch
C16_Witness ==
    /\ op.name = "checkout" /\ Succeeded /\ op.args = <<"b1">>
    /\ hist.prev # <<>> /\ hist.prev[1].name = "checkout" /\ hist.prev[1].args = <<"b2">>
    /\ Len(reqs) = 2 /\ IsFetch(reqs[1]) /\ IsSwitch(reqs[2], "b2", "b1")

-----------------------------------------------------------------------------
(* The lazy fetch: C17 *)

Reads == Attributes \cup {"is_cloned"}

\* C17: a read of rid, status, vsid, url, branch, head or is_cloned on a
\* proxy that holds a snapshot sends nothing and leaves the snapshot as it
\* is; on a proxy without snapshot it sends one GET of the repository, which
\* loads the snapshot the server reports when it is served, and leaves the
\* proxy without snapshot when it fails.
C17_LazyFetch ==
    [][op'.name \in Reads =>
        /\ _data # None =>
              reqs' = <<>> /\ _data' = _data /\ ret'.exc = None
        /\ _data = None =>
              /\ Len(reqs') = 1 /\ IsFetch(reqs'[1])
              /\ IF reqs'[1].fate = "served"
                 THEN _data' = Some(ServerObject(srv)) /\ ret'.exc = None
                 ELSE _data' = None /\ ret'.exc # None]_vars

\* C17 witness: of two reads on a proxy without snapshot the first failed to
\* fetch and the second fetched again and loaded the snapshot
C17_Witness ==
    /\ op.name \in Attributes /\ Succeeded /\ _data # None
    /\ Len(reqs) = 1 /\ IsFetch(reqs[1])
    /\ hist.reads = 2 /\ hist.failed /\ hist.gets = 2

-----------------------------------------------------------------------------
(* SpecList: the repository list and the proxies built of it: C18 *)

\* what the entries of the list carry: every field, or a few of them
Summaries == {AllFields, {"rid", "name"}, {"name", "status", "url"}}

OtherNames == {<<>>, <<"aaa">>, <<"aaa", "zzz">>, <<"zzz", "aaa">>}

ListServers ==
    {[s EXCEPT !.listed = l, !.others = o] :
        s \in {NoRepo(FALSE, "CREATED"),
               [NoRepo(FALSE, "CREATED") EXCEPT !.exists = TRUE]},
        l \in Summaries, o \in OtherNames}

InitList == InitWith(ListServers)

NextList ==
    \/ Construct
    \/ SimpleFetchRepos
    \/ ReadName
    \/ ReadAttribute(Attributes)

SpecList == InitList /\ [][NextList]_vars

IsListGet(q) == q.method = "GET" /\ q.path = <<"repository">>

\* the columns of the repository list
Columns == {"name", "branch", "head", "status", "vsid", "url"}

\* C18: simple_fetch_repos sends one GET of the repository collection and
\* nothing else; served, it returns one proxy for each entry of the list, in
\* the order of the list, each holding its entry as snapshot; and reading
\* name, branch, head, status, vsid or url of a proxy that holds a snapshot
\* sends no request and returns the field of the snapshot, None when the
\* snapshot has no such field.
C18_ListThenRead ==
    [][/\ op'.name = "simple_fetch_repos" =>
            /\ Len(reqs') = 1 /\ IsListGet(reqs'[1])
            /\ ret'.exc = None =>
                  /\ Len(ret'.val[1]) = Len(Listing(srv))
                  /\ \A i \in 1..Len(Listing(srv)) : ret'.val[1][i] = Some(Listing(srv)[i])
                  /\ srv.exists => _data' = Some(ListEntry(srv))
       /\ (op'.name \in Columns /\ _data # None) =>
            /\ reqs' = <<>> /\ ret'.exc = None /\ _data' = _data
            /\ ret'.val = IF op'.name = "name" THEN Some(Name)
                          ELSE DictGet(_data[1], ItemOf(op'.name))]_vars

\* C18 witness: the list of three entries came back in the order of the
\* server, and the branch of the first proxy, whose entry has no branch, was
\* read as None with no request
C18_Witness ==
    /\ op.name = "branch" /\ Succeeded /\ reqs = <<>> /\ ret.val = None
    /\ hist.prev # <<>> /\ hist.prev[1].name = "simple_fetch_repos"
    /\ hist.prev[1].sent = 1
    /\ Len(hist.prev[1].val[1]) = 3
    /\ hist.prev[1].val[1][2][1].name = "zzz"
    /\ hist.prev[1].val[1][3][1].name = "aaa"

-----------------------------------------------------------------------------
(* SpecCreate: create on proxies with and without a snapshot: C19, C20 *)

\* no repository; or one, cloned or not, on a server that creates
\* repositories without cloning them
CreateServers ==
    {NoRepo(lean, "CREATED") : lean \in BOOLEAN}
    \cup {[NoRepo(lean, "CREATED") EXCEPT !.exists = TRUE, !.status = status,
                                          !.config = config, !.listed = listed] :
            lean \in BOOLEAN, status \in Statuses,
            config \in {<<>>, <<[key |-> "VCS_TARGET_DIR", value |-> "src/"]>>},
            listed \in {AllFields, {"rid", "name"}}}

InitCreate == InitWith(CreateServers)

NextCreate ==
    \/ Construct
    \/ SimpleFetchRepos
    \/ ReadAttribute(Attributes)
    \/ Checkout
    \/ DeleteByName
    \/ Create(Urls, {NoConfig, TargetDir("lib/")})

SpecCreate == InitCreate /\ [][NextCreate]_vars

\* C19: after a successful create the snapshot is the one the proxy held
\* overlaid with the repository object of the response (the resource as the
\* server holds it after the request), the fields of the response winning;
\* it is the object of the response when the proxy held none; and an
\* attribute read right after it sends no request and returns the field of
\* that snapshot.
C19_CreateOverlay ==
    [][/\ (op'.name = "create" /\ ret'.exc = None) =>
            _data' = Some(IF Truthy(_data)
                          THEN DictUpdate(_data[1], ServerObject(srv'))
                          ELSE ServerObject(srv'))
       /\ (op.name = "create" /\ Succeeded /\ op'.name \in Attributes) =>
            /\ reqs' = <<>> /\ ret'.exc = None
            /\ ret'.val = DictGet(_data[1], ItemOf(op'.name))]_vars

\* C19 witness: create succeeded on a proxy that held the snapshot of a
\* cloned repository; the repository created has no commit, and head was
\* then read with no request as the commit the old snapshot held
C19_Witness ==
    /\ op.name = "head" /\ Succeeded /\ reqs = <<>> /\ ret.val = Some("c1")
    /\ srv.status = "CREATED" /\ _data[1].status = "CREATED"
    /\ hist.prev # <<>> /\ hist.prev[1].name = "create" /\ hist.prev[1].loaded

\* C20 as stated: a successful create leaves the proxy without snapshot
C20_CreateClears ==
    (op.name = "create" /\ Succeeded) => _data = None

\* C25 as stated: a create that raised leaves the snapshot of the proxy as it
\* was before the call, field by field.
C25_FailedCreateKeeps ==
    [][(op'.name = "create" /\ ret'.exc # None) => _data' = _data]_vars

-----------------------------------------------------------------------------
(* SpecPayload: what create posts, from every snapshot: C21 *)

\* config=None, an empty mapping, a key the snapshot may hold, another key
Supplied ==
    {None, Some(NoConfig), Some(TargetDir("lib/")),
     Some(PyDict(<<"CLIENT_VCS_AUTH_TOKEN">>, [CLIENT_VCS_AUTH_TOKEN |-> "tok"]))}

PayloadServers ==
    {NoRepo(lean, "CREATED") : lean \in BOOLEAN}
    \cup {[NoRepo(lean, "CREATED") EXCEPT !.exists = TRUE, !.config = config,
                                          !.listed = listed] :
            lean \in BOOLEAN,
            config \in {<<>>, <<[key |-> "VCS_TARGET_DIR", value |-> "src/"]>>},
            listed \in {AllFields, {"rid", "name"}}}

InitPayload == InitWith(PayloadServers)

NextPayload ==
    \/ Construct
    \/ DeleteByName
    \/ CreateAs({"u1"}, {DefaultVsid}, Supplied, {"SOURCE"}, {"GITHUB"})
    \/ CreateAs({"u2"}, {"S4H"}, Supplied, {"TARGET"}, {"GIT"})

SpecPayload == InitPayload /\ [][NextPayload]_vars

\* the config list of a snapshot or payload read as a mapping
ConfigOf(d) == _config_list_to_dict(IF "config" \in DOMAIN d THEN d.config ELSE <<>>)

\* C21: the payload create posts has rid and name equal to the repository
\* name, connection 'ssl', and the vsid, url, role and type supplied, whatever
\* the snapshot held; with a non-empty config supplied its config list has
\* one entry per key and reads as the snapshot's config mapping updated with
\* the supplied one; with none or an empty one its config is the snapshot's.
C21_CreatePayload ==
    [][(op'.name = "create" /\ reqs' # <<>>) =>
        LET sent == reqs'[1].body.data
            old == IF Truthy(_data) THEN _data[1] ELSE EmptyDict
            cfg == IF op'.args[3] = None THEN NoConfig ELSE op'.args[3][1]
        IN  /\ IsCreatePost(reqs'[1])
            /\ sent.rid = Name /\ sent.name = Name /\ sent.connection = "ssl"
            /\ sent.url = op'.args[1] /\ sent.vsid = op'.args[2]
            /\ sent.role = op'.args[4] /\ sent.type = op'.args[5]
            /\ IF DOMAIN cfg.at # {}
               THEN /\ "config" \in DOMAIN sent
                    /\ Len(sent.config) = Cardinality(ListKeys(sent.config))
                    /\ DOMAIN ConfigOf(sent).at = DOMAIN ConfigOf(old).at \cup DOMAIN cfg.at
                    /\ \A k \in DOMAIN ConfigOf(sent).at :
                          ConfigOf(sent).at[k] = IF k \in DOMAIN cfg.at THEN cfg.at[k]
                                                 ELSE ConfigOf(old).at[k]
               ELSE DictGet(sent, "config") = DictGet(old, "config")]_vars

\* C21 witness: a create with another vsid, role and type and a new config
\* key was posted from a snapshot that held a config entry of another key
C21_Witness ==
    /\ op.name = "create" /\ op.loaded /\ reqs # <<>>
    /\ op.args[2] = "S4H" /\ op.args[4] = "TARGET" /\ op.args[5] = "GIT"
    /\ op.args[3] # None /\ op.args[3][1].order = <<"CLIENT_VCS_AUTH_TOKEN">>
    /\ Len(reqs[1].body.data.config) = 2
    /\ reqs[1].body.data.role = "TARGET"

-----------------------------------------------------------------------------
(* sap.cli.gcts: the commands of the command line *)

\* a text is the sequence of its pieces: the pieces of a URL are "/", ".git"
\* and runs of other characters
Text(name) == <<name>>

LastSlash(url) ==
    IF \E i \in 1..Len(url) : url[i] = "/"
    THEN CHOOSE i \in 1..Len(url) : url[i] = "/" /\ \A j \in (i + 1)..Len(url) : url[j] # "/"
    ELSE 0

\* url.split('/')[-1], less a final '.git'
package_name_from_url(url) ==
    LET repo_name == SubSeq(url, LastSlash(url) + 1, Len(url))
    IN  IF Len(repo_name) > 0 /\ repo_name[Len(repo_name)] = ".git"
        THEN SubSeq(repo_name, 1, Len(repo_name) - 1)
        ELSE repo_name

\* a clone that names the repository after the URL whatever package says
clone_package_derived(package, url) == package_name_from_url(url)

\* package = args.package; if not package: package = package_name_from_url(args.url)
clone_package(package, url) ==
    IF package = None \/ package[1] = <<>>
    THEN package_name_from_url(url)
    ELSE package[1]

\* the entries of the model's logs are objects without protocol
print_gcts_message(entry) ==
    IF "message" \in DOMAIN entry /\ entry.message # <<>>
    THEN <<entry.message>>
    ELSE <<>>

RECURSIVE PrintEach(_)
PrintEach(entries) ==
    IF entries = <<>> THEN <<>>
    ELSE print_gcts_message(Head(entries)) \o PrintEach(Tail(entries))

\* what dump_gcts_messages prints on the error output
dump_gcts_messages(messages) ==
    LET errlog == IF "errorLog" \in DOMAIN messages THEN messages.errorLog ELSE <<>>
        msglog == IF "log" \in DOMAIN messages THEN messages.log ELSE <<>>
        lines ==
            (IF errlog # <<>> THEN <<"Error Log:">> \o PrintEach(errlog) ELSE <<>>)
            \o (IF msglog # <<>> THEN <<"Log:">> \o PrintEach(msglog) ELSE <<>>)
            \o (IF "exception" \in DOMAIN messages /\ messages.exception # ""
                THEN <<"Exception:", messages.exception>> ELSE <<>>)
    IN  IF lines = <<>> THEN <<messages>> ELSE lines

\* the command returns code, having printed out
Exit(r, code, out) ==
    [r EXCEPT !.val = Some([code |-> code, out |-> out, err |-> <<>>])]

\* except GCTSRequestError as ex: dump_gcts_messages(console, ex.messages); return 1
Handled(r) ==
    IF Raised(r) /\ r.exc[1].kind \in DomainErrors
    THEN [r EXCEPT !.exc = None,
                   !.val = Some([code |-> 1, out |-> <<>>,
                                 err |-> dump_gcts_messages(r.exc[1].messages)])]
    ELSE r

\* try: r ... except GCTSRequestError; Then is what follows the try statement
Guarded(r, Then(_)) == IF Raised(r) THEN Handled(r) ELSE Then(r)

\* the columns of the table, in order
ColumnsInOrder == <<"name", "branch", "head", "status", "vsid", "url">>

\* str(getattr(item, attr)) for each column
TableWriter(repos) ==
    [i \in 1..Len(repos) |->
        [c \in 1..Len(ColumnsInOrder) |->
            IF ColumnsInOrder[c] = "name"
            THEN Some(repos[i].data[1].name)
            ELSE DictGet(repos[i].data[1], ItemOf(ColumnsInOrder[c]))]]

cli_repolist(s, rs) ==
    Guarded(simple_fetch_repos(s, rs),
            LAMBDA r : Exit(r, 0, TableWriter(r.val)))

\* the repository is the one named Name; package is what names it
cli_clone(s, url, start_dir, vcs_token, vsid, no_fail_exists, role, typ, rs) ==
    Guarded(simple_clone(s, url, vsid, start_dir, vcs_token, ~no_fail_exists, role, typ, rs),
            LAMBDA r :
                Try(_get_item(r, "url", rs),
                    LAMBDA u :
                        Try(_get_item(u, "branch", rs),
                            LAMBDA b :
                                Try(_get_item(b, "currentCommit", rs),
                                    LAMBDA h :
                                        Exit(h, 0, <<"Cloned repository:", u.val, b.val, h.val>>)))))

cli_config(s, list, rs) ==
    IF list
    THEN Guarded(configuration(NewRepository(None, s), rs),
                 LAMBDA c : Exit(c, 0, _config_dict_to_list(c.val[1])))
    ELSE [NewRepository(None, s) EXCEPT
            !.val = Some([code |-> 1, out |-> <<>>,
                          err |-> <<"Invalid command line options">>])]

cli_delete(s, rs) ==
    Guarded(simple_delete(s, rs),
            LAMBDA r : Exit(r, 0, <<"The repository has been deleted">>))

\* old_branch = repo.branch is read before the try statement
cli_checkout(s, branch, rs) ==
    Try(_get_item(NewRepository(None, s), "branch", rs),
        LAMBDA b :
            Guarded(simple_checkout(b, branch, rs),
                    LAMBDA r :
                        Exit(r, 0, <<"The repository has been set to the branch", branch,
                                     b.val, r.val[1].fromCommit, r.val[1].toCommit>>)))

print_gcts_commit(commit_data) ==
    <<commit_data.id, commit_data.author, commit_data.authorMail, commit_data.date,
      commit_data.message>>

cli_log(s, rs) ==
    Guarded(simple_log(NewRepository(None, s), rs),
            LAMBDA r : Exit(r, 0, [i \in 1..Len(r.val[1]) |-> print_gcts_commit(r.val[1][i])]))

cli_pull(s, rs) ==
    Guarded(simple_pull(NewRepository(None, s), rs),
            LAMBDA r : Exit(r, 0, <<"The repository has been pulled",
                                    r.val[1].fromCommit, r.val[1].toCommit>>))

\* args.message or f'Transport {args.corrnr}'; no description
cli_commit(s, corrnr, message, rs) ==
    Guarded(commit_transport(NewRepository(None, s), corrnr,
                             IF message = None THEN <<"Transport ", corrnr>> ELSE message[1], rs),
            LAMBDA r : Exit(r, 0, <<"The transport has been committed", corrnr>>))

-----------------------------------------------------------------------------
(* SpecCli: the commands: C22 *)

\* replies of a command of up to four requests: none of them fails, or one
\* does, after a creation that may have met the repository
RS4 ==
    {<<"ok", "ok", "ok", "ok">>, <<"nonjson", "ok", "ok", "ok">>}
    \cup {[i \in 1..4 |-> IF i = n THEN "generic" ELSE "ok"] : n \in 1..4}
    \cup {[i \in 1..4 |-> IF i = 1 THEN "exists" ELSE IF i = n THEN "generic" ELSE "ok"] :
            n \in 1..4}

\* the URL given to clone, and the package argument: none, empty, the name
CliUrls == {<<"https://host/org", "/", Name, ".git">>}
Packages == {None, Some(<<>>), Some(Text(Name))}

CliServers == {[s EXCEPT !.url = <<"https://host/org", "/", Name>>] : s \in Servers}

InitCli == InitWith(CliServers)

CliRepolist ==
    \E rs \in RS1 :
        Done(Op("gcts repolist", <<>>, FALSE, Fresh), Kept(cli_repolist(srv, rs)))

CliClone ==
    \E url \in CliUrls, package \in Packages, no_fail_exists \in BOOLEAN, rs \in RS4 :
        /\ clone_package(package, url) = Text(Name)
        /\ Done(Op("gcts clone", <<url, package>>, no_fail_exists, Fresh),
                Kept(cli_clone(srv, url, Some("src/"), None, DefaultVsid, no_fail_exists,
                               "SOURCE", "GITHUB", rs)))

CliConfig ==
    \E list \in BOOLEAN, rs \in RS1 :
        Done(Op("gcts config", <<>>, list, Fresh), Kept(cli_config(srv, list, rs)))

CliDelete ==
    \E rs \in RS1 :
        Done(Op("gcts delete", <<>>, FALSE, Fresh), Kept(cli_delete(srv, rs)))

CliCheckout ==
    \E branch \in Branches, rs \in RS2 :
        Done(Op("gcts checkout", <<branch>>, FALSE, Fresh), Kept(cli_checkout(srv, branch, rs)))

CliLog ==
    \E rs \in RS1 :
        Done(Op("gcts log", <<>>, FALSE, Fresh), Kept(cli_log(srv, rs)))

CliPull ==
    \E rs \in RS1 :
        Done(Op("gcts pull", <<>>, FALSE, Fresh), Kept(cli_pull(srv, rs)))

CliCommit ==
    \E message \in {None, Some("Message")}, rs \in RS1 :
        Done(Op("gcts commit", <<"C50K000167">>, FALSE, Fresh),
             Kept(cli_commit(srv, "C50K000167", message, rs)))

NextCli ==
    \/ CliRepolist
    \/ CliClone
    \/ CliConfig
    \/ CliDelete
    \/ CliCheckout
    \/ CliLog
    \/ CliPull
    \/ CliCommit

SpecCli == InitCli /\ [][NextCli]_vars

Commands ==
    {"gcts repolist", "gcts clone", "gcts config", "gcts delete", "gcts checkout",
     "gcts log", "gcts pull", "gcts commit"}

\* the last request of the operation failed with an error of the domain: a
\* JSON error body
DomainFailure ==
    reqs # <<>> /\ reqs[Len(reqs)].fate \in Fails \ {"nonjson"}

\* C22 as stated: when a request of a command fails with a domain error, the
\* fetch of the old branch in checkout and the fetches of url, branch and head
\* after clone included, the command prints the messages of the error and
\* returns 1: no exception escapes it.
C22_CommandsHandle ==
    (op.name \in Commands /\ DomainFailure) =>
        /\ ret.exc = None
        /\ ret.val[1].code = 1
        /\ ret.val[1].err # <<>>

-----------------------------------------------------------------------------
(* SpecByName: the orchestration functions, by name and with a proxy: C27 *)

\* simple_checkout, simple_log and simple_pull called with name=: the proxy
\* is built for the call, the one the caller holds is not touched
CheckoutByName ==
    \E branch \in Branches, rs \in RS2 :
        Done(Op("simple_checkout", <<branch>>, TRUE, Fresh),
             Kept(simple_checkout(Fresh, branch, rs)))

LogByName ==
    \E rs \in RS1 :
        Done(Op("simple_log", <<>>, TRUE, Fresh), Kept(simple_log(Fresh, rs)))

PullByName ==
    \E rs \in RS1 :
        Done(Op("simple_pull", <<>>, TRUE, Fresh), Kept(simple_pull(Fresh, rs)))

NextByName ==
    \/ Construct
    \/ ReadAttribute({"branch"})
    \/ Checkout
    \/ Log
    \/ Pull
    \/ CheckoutByName
    \/ LogByName
    \/ PullByName
    \/ DeleteByName
    \/ CliCheckout

SpecByName == Init /\ [][NextByName]_vars

-----------------------------------------------------------------------------
(* SpecConvert: the two conversions of a configuration, one after the other: C23 *)

\* the entries of a config list: a key, with or without a value
Entries ==
    {[key |-> k, value |-> v] : k \in Keys, v \in Dirs \cup {""}}
    \cup {[key |-> k] : k \in Keys}

\* every list of up to MaxLen entries, keys repeated or not
Lists == UNION {[1..n -> Entries] : n \in 0..MaxLen}

\* every mapping over the keys, in every order of insertion
KeyOrders ==
    {o \in UNION {[1..n -> Keys] : n \in 0..Cardinality(Keys)} :
        \A i, j \in 1..Len(o) : i # j => o[i] # o[j]}

Mappings ==
    UNION {{PyDict(o, a) : a \in [{o[i] : i \in 1..Len(o)} -> Dirs \cup {""}]} : o \in KeyOrders}

\* the value x is at hand, named as what it is; nothing was done with it yet
Given(what, x) ==
    /\ srv = NoRepo(FALSE, "CREATED")
    /\ _data = None /\ _config = None /\ shared = FALSE
    /\ op = [name |-> what, args |-> <<x>>, flag |-> FALSE, loaded |-> FALSE, cached |-> FALSE]
    /\ reqs = <<>>
    /\ ret = [exc |-> None, val |-> None]
    /\ hist = Idle

\* _config_dict_to_list(_config_list_to_dict(l))
ListRoundTrip ==
    /\ op.name = "config list"
    /\ Done(Op("list_to_dict_to_list", op.args, FALSE, Self),
            [Self EXCEPT !.val = Some(_config_dict_to_list(_config_list_to_dict(op.args[1])))])

\* _config_list_to_dict(_config_dict_to_list(d))
DictRoundTrip ==
    /\ op.name = "config mapping"
    /\ Done(Op("dict_to_list_to_dict", op.args, FALSE, Self),
            [Self EXCEPT !.val = Some(_config_list_to_dict(_config_dict_to_list(op.args[1])))])

InitConvert ==
    \/ \E l \in Lists : Given("config list", l)
    \/ \E d \in Mappings : Given("config mapping", d)

NextConvert == ListRoundTrip \/ DictRoundTrip

SpecConvert == InitConvert /\ [][NextConvert]_vars

\* C23: the list made of the mapping made of a list l has the keys of l, one
\* entry for each, with the value of the last entry of the key in l, the
\* empty string when that entry has none; and the mapping made of the list
\* made of a mapping d is d.
C23_RoundTrips ==
    /\ op.name = "list_to_dict_to_list" =>
        LET l == op.args[1]
            out == ret.val[1]
        IN  /\ {out[i].key : i \in 1..Len(out)} = {l[j].key : j \in 1..Len(l)}
            /\ \A i, j \in 1..Len(out) : i # j => out[i].key # out[j].key
            /\ \A i \in 1..Len(out) :
                 /\ DOMAIN out[i] = {"key", "value"}
                 /\ \E j \in 1..Len(l) :
                      /\ l[j].key = out[i].key
                      /\ \A m \in (j + 1)..Len(l) : l[m].key # out[i].key
                      /\ out[i].value = IF "value" \in DOMAIN l[j] THEN l[j].value ELSE ""
    /\ op.name = "dict_to_list_to_dict" =>
        /\ DOMAIN ret.val[1].at = DOMAIN op.args[1].at
        /\ \A k \in DOMAIN op.args[1].at : ret.val[1].at[k] = op.args[1].at[k]

\* C23 witness: a list of three entries of one key, the last without value,
\* came back as one entry with the empty string
C23_Witness ==
    /\ op.name = "list_to_dict_to_list"
    /\ Len(op.args[1]) = 3
    /\ op.args[1][1] = [key |-> "VCS_TARGET_DIR", value |-> "src/"]
    /\ op.args[1][2] = [key |-> "VCS_TARGET_DIR", value |-> "lib/"]
    /\ op.args[1][3] = [key |-> "VCS_TARGET_DIR"]
    /\ ret.val = Some(<<[key |-> "VCS_TARGET_DIR", value |-> ""]>>)

-----------------------------------------------------------------------------
(* SpecPackage: the name of the repository clone works on: C24 *)

\* the pieces of a URL: the separator, the suffix, any other run of characters
Pieces == {"/", ".git", "x"}

UrlTexts == UNION {[1..n -> Pieces] : n \in 0..MaxUrl}

\* args.url and args.package of clone: package absent, empty or a name
CloneArguments ==
    {[url |-> url, package |-> package] :
        url \in UrlTexts, package \in {None, Some(<<>>), Some(<<"pkg">>)}}

PackageNameFromUrl ==
    /\ op.name = "clone arguments"
    /\ Done(Op("package_name_from_url", op.args, FALSE, Self),
            [Self EXCEPT !.val = Some(package_name_from_url(op.args[1].url))])

ClonePackage ==
    /\ op.name = "clone arguments"
    /\ Done(Op("clone_package", op.args, FALSE, Self),
            [Self EXCEPT !.val = Some(clone_package(op.args[1].package, op.args[1].url))])

InitPackage == \E a \in CloneArguments : Given("clone arguments", a)

NextPackage == PackageNameFromUrl \/ ClonePackage

SpecPackage == InitPackage /\ [][NextPackage]_vars

\* name is what follows the last "/" of url, less one final ".git"
IsDerived(name, url) ==
    \E k \in 0..Len(url) :
        /\ k = 0 \/ url[k] = "/"
        /\ \A j \in (k + 1)..Len(url) : url[j] # "/"
        /\ IF k < Len(url) /\ url[Len(url)] = ".git"
           THEN name = SubSeq(url, k + 1, Len(url) - 1)
           ELSE name = SubSeq(url, k + 1, Len(url))

\* C24 as stated: package_name_from_url returns what follows the last '/' of
\* the URL less one final '.git'; clone works on that name when no package
\* argument is given, and on the package argument whenever one is given.
C24_DerivedOnlyWhenAbsent ==
    /\ op.name = "package_name_from_url" => IsDerived(ret.val[1], op.args[1].url)
    /\ op.name = "clone_package" =>
        IF op.args[1].package = None
        THEN IsDerived(ret.val[1], op.args[1].url)
        ELSE ret.val[1] = op.args[1].package[1]

\* C24: package_name_from_url returns what follows the last '/' of the URL
\* less one final '.git'; clone works on that name when the package argument
\* is absent or empty, and on the package argument when it is a non-empty
\* name.
C24_DerivedWhenAbsentOrEmpty ==
    /\ op.name = "package_name_from_url" => IsDerived(ret.val[1], op.args[1].url)
    /\ op.name = "clone_package" =>
        IF op.args[1].package = None \/ op.args[1].package[1] = <<>>
        THEN IsDerived(ret.val[1], op.args[1].url)
        ELSE ret.val[1] = op.args[1].package[1]

\* C24 witness: clone was given an empty package and a URL that ends in two
\* '.git' after a '/', and works on the name derived by taking one off
C24_Witness ==
    /\ op.name = "clone_package"
    /\ op.args[1].package = Some(<<>>)
    /\ op.args[1].url = <<"x", "/", ".git", ".git">>
    /\ ret.val = Some(<<".git">>)

IsGetOf(q, what) == q.method = "GET" /\ q.path = RepoPath \o <<what>>

IsDelete(q) == q.method = "DELETE" /\ q.path = RepoPath

\* a switch request from some branch to the branch b
IsSwitchTo(q, b) ==
    /\ q.method = "GET" /\ Len(q.path) = 5
    /\ SubSeq(q.path, 1, 3) = RepoPath \o <<"branches">> /\ q.path[5] = "switch"
    /\ q.params = Some(b)

\* C27: on success simple_pull, simple_log and simple_delete by name send one
\* request each (pullByCommit, getCommit, DELETE) and no fetch of the
\* repository; simple_checkout by name sends one fetch and then one switch;
\* given a proxy that holds a snapshot it sends the switch alone, from the
\* branch of that snapshot; the checkout command sends one fetch and one
\* switch; and log leaves the snapshot and the config cache as they were.
C27_RequestCounts ==
    [][/\ (op'.name = "simple_pull" /\ op'.flag /\ ret'.exc = None) =>
            (Len(reqs') = 1 /\ IsGetOf(reqs'[1], "pullByCommit"))
       /\ (op'.name = "simple_log" /\ op'.flag /\ ret'.exc = None) =>
            (Len(reqs') = 1 /\ IsGetOf(reqs'[1], "getCommit"))
       /\ (op'.name = "simple_delete" /\ op'.flag /\ ret'.exc = None) =>
            (Len(reqs') = 1 /\ IsDelete(reqs'[1]))
       /\ (op'.name = "simple_checkout" /\ op'.flag /\ ret'.exc = None) =>
            /\ Len(reqs') = 2 /\ IsFetch(reqs'[1])
            /\ IsSwitch(reqs'[2], srv.branch, op'.args[1])
       /\ (op'.name = "checkout" /\ op'.loaded /\ ret'.exc = None) =>
            /\ Len(reqs') = 1
            /\ IsSwitch(reqs'[1], BranchOf(_data[1]), op'.args[1])
       /\ (op'.name = "gcts checkout" /\ ret'.exc = None) =>
            /\ ret'.val[1].code = 0 => Len(reqs') = 2
            /\ NumFetches(reqs') = 1 /\ IsFetch(reqs'[1])
            /\ Cardinality({i \in 1..Len(reqs') : IsSwitchTo(reqs'[i], op'.args[1])})
                  = Len(reqs') - 1
       /\ (op'.name = "log") => (_data' = _data /\ _config' = _config)]_vars

\* C27 witness: the checkout command switched a repository on branch b1 to
\* b2 with one fetch and one switch
C27_Witness ==
    /\ op.name = "gcts checkout" /\ op.args = <<"b2">>
    /\ Succeeded /\ ret.val[1].code = 0
    /\ Len(reqs) = 2 /\ IsFetch(reqs[1]) /\ IsSwitch(reqs[2], "b1", "b2")
    /\ srv.branch = "b2"

-----------------------------------------------------------------------------
(* The paths of the requests: C29 *)

\* the methods and properties of Repository that may send a request
RepositoryMethods ==
    Attributes \cup {"is_cloned", "configuration", "create", "set_config", "get_config",
                     "clone", "checkout", "log", "pull", "delete", "commit_transport",
                     "set_url"}

\* the path is repository/{name} or goes below it
UnderRepoPath(q) ==
    Len(q.path) >= Len(RepoPath) /\ SubSeq(q.path, 1, Len(RepoPath)) = RepoPath

-----------------------------------------------------------------------------
(* sap.cli.abapclass: the write command: C30 *)

\* str.upper over the class names of the model
Upper(name) == IF name = "zcl_hello" THEN "ZCL_HELLO" ELSE name

\* ''.join(text): the lines one after the other
RECURSIVE Join(_)
Join(lines) == IF lines = <<>> THEN <<>> ELSE Head(lines) \o Join(Tail(lines))

\* a call of a method of the class object: it returns, or it raises; fates
\* holds how each call of the command ends, in order
AdtCall(w, method, target, body, fates) ==
    LET fate == fates[Len(w.reqs) + 1] IN
    IF fate = "served"
    THEN [w EXCEPT !.reqs = Append(@, Sent(Request(method, target, None, body), fate))]
    ELSE [w EXCEPT !.reqs = Append(@, Sent(Request(method, target, None, body), fate)),
                   !.exc = Some(PyError("ADTError"))]

\* try: c finally: clas.unlock(); an exception of unlock replaces that of c
Finally(c, target, fates) ==
    LET u == AdtCall([c EXCEPT !.exc = None], "unlock", target, EmptyDict, fates) IN
    IF Raised(u) THEN u ELSE [u EXCEPT !.exc = c.exc]

\* a write that unlocks only when the text was changed
write_unlock_after(w, args, fates) ==
    IF args.source # "-" /\ ~args.readable
    THEN [w EXCEPT !.exc = Some(PyError("OSError"))]
    ELSE LET target == <<"class", Upper(args.name)>> IN
         Try(AdtCall(w, "lock", target, EmptyDict, fates),
             LAMBDA l :
                Try(AdtCall(l, "change_text",
                            IF args.testclasses THEN target \o <<"test_classes">> ELSE target,
                            Join(args.lines), fates),
                    LAMBDA c : AdtCall(c, "unlock", target, EmptyDict, fates)))

\* the text is read from stdin or from the file; the class is locked, its
\* text or that of its test classes changed, and the class unlocked
write(w, args, fates) ==
    IF args.source # "-" /\ ~args.readable
    THEN [w EXCEPT !.exc = Some(PyError("OSError"))]
    ELSE LET target == <<"class", Upper(args.name)>> IN
         Try(AdtCall(w, "lock", target, EmptyDict, fates),
             LAMBDA l :
                Finally(AdtCall(l, "change_text",
                                IF args.testclasses THEN target \o <<"test_classes">>
                                ELSE target,
                                Join(args.lines), fates),
                        target, fates))

\* source, whether the file can be read, name, --testclasses, and the lines read
WriteArguments ==
    {[source |-> source, readable |-> readable, name |-> name,
      testclasses |-> testclasses, lines |-> lines] :
        source \in {"-", "zcl_hello.abap"}, readable \in BOOLEAN,
        name \in {"zcl_hello", "ZCL_HELLO"}, testclasses \in BOOLEAN,
        lines \in {<<>>, <<<<"class zcl_hello", "\n">>>>,
                   <<<<"class zcl_hello", "\n">>, <<"endclass">>>>}}

\* lock, change_text and unlock each return or raise
AdtFates == [1..3 -> {"served", "failed"}]

Write ==
    /\ op.name = "write arguments"
    /\ \E fates \in AdtFates :
        Done(Op("write", op.args, FALSE, Self), [write(Self, op.args[1], fates) EXCEPT !.val = None])

InitWrite == \E a \in WriteArguments : Given("write arguments", a)

NextWrite == Write

SpecWrite == InitWrite /\ [][NextWrite]_vars

Called(method) == {i \in 1..Len(reqs) : reqs[i].method = method}

Locked == \E i \in Called("lock") : reqs[i].fate = "served"

\* C30: change_text is called only after a lock() that returned; when lock()
\* returned, unlock() is called once, after change_text, whether change_text
\* returned or raised; when lock() raised or was not called, neither
\* change_text nor unlock() is called.
C30_LockChangeUnlock ==
    op.name = "write" =>
        /\ \A i \in Called("change_text") :
              \E j \in Called("lock") : j < i /\ reqs[j].fate = "served"
        /\ Locked =>
              /\ Cardinality(Called("unlock")) = 1
              /\ \A i \in Called("change_text"), j \in Called("unlock") : i < j
        /\ ~Locked => (Called("change_text") = {} /\ Called("unlock") = {})

\* C30 witness: the class was locked, change_text raised, the class was
\* unlocked and the command raised
C30_Witness ==
    /\ op.name = "write" /\ ~Succeeded
    /\ Len(reqs) = 3
    /\ reqs[1].method = "lock" /\ reqs[1].fate = "served"
    /\ reqs[2].method = "change_text" /\ reqs[2].fate = "failed"
    /\ reqs[3].method = "unlock" /\ reqs[3].fate = "served"

-----------------------------------------------------------------------------
(* sap.cli.atc: the three printers of ATC results: C31 *)

\* the worklists, objects and findings of the printed results, all together
MaxSize == 6

CHECKSTYLE_VERSION == "8.36"

INFO == "info"

SEVERITY_MAPPING ==
    PyDict(<<"1", "2", "3", "4", "5">>,
           [p \in {"1", "2", "3", "4", "5"} |->
                IF p \in {"1", "2"} THEN "error" ELSE IF p \in {"3", "4"} THEN "warning" ELSE INFO])

\* for item in seq: st = Step(st, item)
ForEach(seq, st0, Step(_, _)) ==
    LET st[i \in 0..Len(seq)] == IF i = 0 THEN st0 ELSE Step(st[i - 1], seq[i])
    IN st[Len(seq)]

\* int() of the priority of a finding
int(priority) ==
    CASE priority = "1" -> 1 [] priority = "2" -> 2 [] priority = "3" -> 3
      [] priority = "4" -> 4 [] priority = "5" -> 5

\* xml.sax.saxutils.escape: &, < and > are replaced, the rest is kept
escape(data) ==
    [i \in 1..Len(data) |->
        CASE data[i] = "&" -> "&amp;" [] data[i] = "<" -> "&lt;" [] data[i] = ">" -> "&gt;"
          [] OTHER -> data[i]]

Occurs(piece, data) == \E i \in 1..Len(data) : data[i] = piece

\* xml.sax.saxutils.quoteattr: escaped and put in quotes that the text does
\* not hold; a double quote becomes &quot; when the text holds both
quoteattr(data) ==
    LET esc == escape(data) IN
    IF Occurs("\"", esc)
    THEN IF Occurs("'", esc)
         THEN <<"\"">> \o [i \in 1..Len(esc) |-> IF esc[i] = "\"" THEN "&quot;" ELSE esc[i]]
                       \o <<"\"">>
         ELSE <<"'">> \o esc \o <<"'">>
    ELSE <<"\"">> \o esc \o <<"\"">>

\* (name or '').replace('/', DIVISION_SLASH)
replace_slash(name) ==
    LET text == IF name = None THEN <<>> ELSE name[1] IN
    [i \in 1..Len(text) |-> IF text[i] = "/" THEN "U+2215" ELSE text[i]]

Digits == {"5", "7", "10"}

\* the first start=<line>[,<column>] of the location; '0' for what is missing
get_line_and_column(location) ==
    LET text == IF location = None THEN <<>> ELSE location[1]
        found == {i \in 1..(Len(text) - 1) : text[i] = "start=" /\ text[i + 1] \in Digits}
    IN IF found = {}
       THEN [line |-> "0", column |-> "0"]
       ELSE LET i == CHOOSE i \in found : \A j \in found : i <= j IN
            [line |-> text[i + 1],
             column |-> IF i + 3 <= Len(text) /\ text[i + 2] = "," /\ text[i + 3] \in Digits
                        THEN text[i + 3] ELSE "0"]

\* a human readable line for each object and each finding
print_worklists_to_stream_below(all_results, stream, error_level) ==
    LET pad == <<>>
        out == ForEach(all_results, [ret |-> 0, stream |-> stream],
                 LAMBDA s1, run_results :
                   ForEach(run_results.objects, s1,
                     LAMBDA s2, obj :
                       LET finiding_pad == pad \o <<" ">> IN
                       ForEach(obj.findings,
                               [s2 EXCEPT !.stream =
                                    Append(@, obj.object_type_id \o <<"/">> \o obj.name
                                              \o <<"\n">>)],
                         LAMBDA s3, finding :
                           [ret |-> IF int(finding.priority) < error_level
                                    THEN s3.ret + 1 ELSE s3.ret,
                            stream |-> Append(s3.stream,
                                <<"*">> \o finiding_pad \o <<finding.priority, " :: ">>
                                \o finding.check_title \o <<" :: ">>
                                \o finding.message_title \o <<"\n">>)])))
    IN [code |-> IF out.ret < 1 THEN 0 ELSE 1, stream |-> out.stream]

\* a human readable line for each object and each finding
print_worklists_to_stream(all_results, stream, error_level) ==
    LET pad == <<>>
        out == ForEach(all_results, [ret |-> 0, stream |-> stream],
                 LAMBDA s1, run_results :
                   ForEach(run_results.objects, s1,
                     LAMBDA s2, obj :
                       LET finiding_pad == pad \o <<" ">> IN
                       ForEach(obj.findings,
                               [s2 EXCEPT !.stream =
                                    Append(@, obj.object_type_id \o <<"/">> \o obj.name
                                              \o <<"\n">>)],
                         LAMBDA s3, finding :
                           [ret |-> IF int(finding.priority) <= error_level
                                    THEN s3.ret + 1 ELSE s3.ret,
                            stream |-> Append(s3.stream,
                                <<"*">> \o finiding_pad \o <<finding.priority, " :: ">>
                                \o finding.check_title \o <<" :: ">>
                                \o finding.message_title \o <<"\n">>)])))
    IN [code |-> IF out.ret < 1 THEN 0 ELSE 1, stream |-> out.stream]

\* one html table: three rows of headings and names for each object, one row
\* for each finding
print_worklists_as_html_to_stream(all_results, stream, error_level) ==
    LET out == ForEach(all_results, [ret |-> 0, stream |-> Append(stream, <<"<table>\n">>)],
                 LAMBDA s1, run_results :
                   ForEach(run_results.objects, s1,
                     LAMBDA s2, obj :
                       ForEach(obj.findings,
                               [s2 EXCEPT !.stream =
                                    @ \o <<<<"<tr><th>Object type ID</th>\n",
                                             "<th>Name</th></tr>\n">>,
                                           <<"<tr><td>">> \o escape(obj.object_type_id)
                                             \o <<"</td>\n", "<td>">> \o escape(obj.name)
                                             \o <<"</td></tr>\n">>,
                                           <<"<tr><th>Priority</th>\n",
                                             "<th>Check title</th>\n",
                                             "<th>Message title</th></tr>\n">>>>],
                         LAMBDA s3, finding :
                           [ret |-> IF int(finding.priority) <= error_level
                                    THEN s3.ret + 1 ELSE s3.ret,
                            stream |-> Append(s3.stream,
                                <<"<tr><td>">> \o escape(<<finding.priority>>)
                                \o <<"</td>\n", "<td>">> \o escape(finding.check_title)
                                \o <<"</td>\n", "<td>">> \o escape(finding.message_title)
                                \o <<"</td></tr>\n">>)])))
    IN [code |-> IF out.ret < 1 THEN 0 ELSE 1,
        stream |-> Append(out.stream, <<"</table>\n">>)]

\* checkstyle xml: a file element for each object, an error element for each
\* finding, its severity taken from the mapping, info for an unmapped priority
print_worklists_as_checkstyle_xml_to_stream(all_results, stream, error_level, mapping) ==
    LET severity_mapping ==
            IF mapping = None \/ mapping[1].order = <<>> THEN SEVERITY_MAPPING ELSE mapping[1]
        out == ForEach(all_results,
                       [ret |-> 0,
                        stream |-> stream
                            \o <<<<"<?xml version=\"1.0\" encoding=\"UTF-8\"?>\n">>,
                                 <<"<checkstyle version=\"", CHECKSTYLE_VERSION, "\">\n">>>>],
                 LAMBDA s1, run_results :
                   ForEach(run_results.objects, s1,
                     LAMBDA s2, obj :
                       LET package_name == replace_slash(Some(obj.typ))
                           name == replace_slash(Some(obj.package_name \o <<"/">> \o obj.name))
                           filename == package_name \o <<"/">> \o name
                           body ==
                             ForEach(obj.findings,
                                     [s2 EXCEPT !.stream =
                                          Append(@, <<"<file name=">> \o quoteattr(filename)
                                                    \o <<">\n">>)],
                               LAMBDA s3, finding :
                                 LET severity ==
                                         IF finding.priority \in DOMAIN severity_mapping.at
                                         THEN severity_mapping.at[finding.priority] ELSE INFO
                                     at == get_line_and_column(finding.location)
                                 IN [ret |-> IF int(finding.priority) <= error_level
                                             THEN s3.ret + 1 ELSE s3.ret,
                                     stream |-> Append(s3.stream,
                                         <<"<error ", "line=">> \o quoteattr(<<at.line>>)
                                         \o <<" ", "column=">> \o quoteattr(<<at.column>>)
                                         \o <<" ", "severity=">> \o quoteattr(<<severity>>)
                                         \o <<" ", "message=">>
                                         \o quoteattr(finding.message_title)
                                         \o <<" ", "source=">> \o quoteattr(finding.check_title)
                                         \o <<"/>\n">>)])
                       IN [body EXCEPT !.stream = Append(@, <<"</file>\n">>)]))
    IN [code |-> IF out.ret < 1 THEN 0 ELSE 1,
        stream |-> Append(out.stream, <<"</checkstyle>\n">>)]

-----------------------------------------------------------------------------
(* SpecAtc: results are printed in one of the three formats: C31 *)

\* the findings of the results: a priority, the titles and where it was found
Findings ==
    {[priority |-> "1", check_title |-> <<"Syntax check">>,
      message_title |-> <<"a ", "<", " b">>,
      location |-> Some(<<"uri#", "start=", "10", ",", "5">>)],
     [priority |-> "2", check_title |-> <<"Naming">>,
      message_title |-> <<"say ", "\"", "hi", "\"">>,
      location |-> Some(<<"uri#", "start=", "7">>)],
     [priority |-> "5", check_title |-> <<"Style">>,
      message_title |-> <<"plain">>, location |-> None]}

\* an object of a worklist with no finding yet
CheckedObject ==
    [object_type_id |-> <<"CLAS", "/", "OC">>, name |-> <<"ZCL_HELLO">>,
     typ |-> <<"CLAS", "/", "OC">>, package_name |-> <<"$TMP">>, findings |-> <<>>]

\* the results of n or fewer worklists, objects and findings: one more
\* worklist, one more object of the last worklist, or one more finding of
\* its last object
RECURSIVE Worklists(_)
Worklists(n) ==
    IF n = 0 THEN {<<>>}
    ELSE LET S == Worklists(n - 1)
             runs == {r \in S : r # <<>>}
             objs == {r \in runs : r[Len(r)].objects # <<>>}
         IN S \cup {Append(r, [objects |-> <<>>]) : r \in S}
              \cup {[r EXCEPT ![Len(r)].objects = Append(@, CheckedObject)] : r \in runs}
              \cup {[r EXCEPT ![Len(r)].objects[Len(r[Len(r)].objects)].findings =
                                    Append(@, f)] : r \in objs, f \in Findings}

\* --error-level: none of the priorities, one of them, between them, all
ErrorLevels == {0, 1, 2, 4, 99}

AtcResults ==
    {[all_results |-> rs, error_level |-> e] : rs \in Worklists(MaxSize), e \in ErrorLevels}

\* --severity-mapping: not given, empty, or one that names priority 5 only
SeverityMappings ==
    {None, Some(PyDict(<<>>, EmptyDict)), Some(PyDict(<<"5">>, [p \in {"5"} |-> "error"]))}

PrintHuman ==
    /\ op.name = "atc results"
    /\ Done(Op("human", op.args, FALSE, Self),
            [Self EXCEPT !.val =
                Some(print_worklists_to_stream(op.args[1].all_results, <<>>,
                                               op.args[1].error_level))])

PrintHtml ==
    /\ op.name = "atc results"
    /\ Done(Op("html", op.args, FALSE, Self),
            [Self EXCEPT !.val =
                Some(print_worklists_as_html_to_stream(op.args[1].all_results, <<>>,
                                                       op.args[1].error_level))])

PrintCheckstyle ==
    /\ op.name = "atc results"
    /\ \E mapping \in SeverityMappings :
        Done(Op("checkstyle", op.args, FALSE, Self),
             [Self EXCEPT !.val =
                Some(print_worklists_as_checkstyle_xml_to_stream(
                        op.args[1].all_results, <<>>, op.args[1].error_level, mapping))])

InitAtc == \E a \in AtcResults : Given("atc results", a)

NextAtc == PrintHuman \/ PrintHtml \/ PrintCheckstyle

SpecAtc == InitAtc /\ [][NextAtc]_vars

\* the findings of the results, in the order of the worklists, of their
\* objects and of the findings of each object
FindingsOf(all_results) ==
    ForEach(all_results, <<>>,
        LAMBDA a, run_results :
            ForEach(run_results.objects, a, LAMBDA b, obj : b \o obj.findings))

\* the check titles the stream holds, in the order they were written
RECURSIVE TitlesWritten(_)
TitlesWritten(stream) ==
    IF stream = <<>> THEN <<>>
    ELSE LET titles == {f.check_title[1] : f \in Findings}
             here == {t \in titles : Occurs(t, Head(stream))}
         IN (IF here = {} THEN <<>> ELSE <<CHOOSE t \in here : TRUE>>)
            \o TitlesWritten(Tail(stream))

\* C31: each of the three printers returns 1 when a finding of the results
\* has a priority less than or equal to error_level as integers and 0 when
\* none has, 0 for results without findings; the three return the same code
\* for the same results and error_level; and each writes every finding, in
\* order, whatever its priority.
C31_PrintersAgree ==
    op.name \in {"human", "html", "checkstyle"} =>
        LET all_results == op.args[1].all_results
            error_level == op.args[1].error_level
            found == FindingsOf(all_results)
            hit == \E i \in 1..Len(all_results) :
                     \E j \in 1..Len(all_results[i].objects) :
                       \E k \in 1..Len(all_results[i].objects[j].findings) :
                          int(all_results[i].objects[j].findings[k].priority) <= error_level
        IN /\ ret.val[1].code = IF hit THEN 1 ELSE 0
           /\ found = <<>> => ret.val[1].code = 0
           /\ \A mapping \in SeverityMappings :
                /\ print_worklists_to_stream(all_results, <<>>, error_level).code
                      = ret.val[1].code
                /\ print_worklists_as_html_to_stream(all_results, <<>>, error_level).code
                      = ret.val[1].code
                /\ print_worklists_as_checkstyle_xml_to_stream(
                        all_results, <<>>, error_level, mapping).code = ret.val[1].code
           /\ TitlesWritten(ret.val[1].stream)
                 = [i \in 1..Len(found) |-> found[i].check_title[1]]

\* C31 witness: the html printer wrote the two findings of an object, of
\* priority 5 and 2, and returned 1 for the error level 2
C31_Witness ==
    /\ op.name = "html" /\ op.args[1].error_level = 2
    /\ Len(op.args[1].all_results) = 1
    /\ Len(op.args[1].all_results[1].objects) = 1
    /\ Len(op.args[1].all_results[1].objects[1].findings) = 2
    /\ op.args[1].all_results[1].objects[1].findings[1].priority = "5"
    /\ op.args[1].all_results[1].objects[1].findings[2].priority = "2"
    /\ ret.val[1].code = 1
    /\ TitlesWritten(ret.val[1].stream) = <<"Style", "Naming">>

====
